---- MODULE Spec2Model ----
(***************************************************************************)
(* The intertext graph: Node, SpanNode, Edge and IntertextDocument of      *)
(* intertext_graph/itgraph.py and IntertextMultiGraph of itmultigraph.py.  *)
(*                                                                         *)
(* Python objects live in a heap: world.nodes and world.edges map an       *)
(* object identity (the _uuid) to the object's attributes, world.docs maps *)
(* a document identity to the document's attributes.  A method is an      *)
(* operator from a world to a result [w, ok, err]: the world the call      *)
(* leaves behind and whether it returned (ok) or raised (err).  A raise    *)
(* keeps every assignment made before it.                                  *)
(***************************************************************************)
EXTENDS Integers, Sequences, FiniteSets, TLC

VARIABLES world, last, ret, pc, u_queue, u_breadcrumbs, u_result

vars == <<world, last, ret, pc, u_queue, u_breadcrumbs, u_result>>

(* ------------------------------ bounds --------------------------------- *)
\* add_node is not called once ix_counter has reached MaxCounter
MaxCounter == 3
\* the documents that are unrolled hold at most MaxUnrollEdges edges
MaxUnrollEdges == 3
\* a content that is assigned has at most MaxLen characters
MaxLen == 3
\* the offsets of a span node are at most MaxOffset
MaxOffset == 3
\* the constructor is given at most MaxCtorNodes nodes
MaxCtorNodes == 3

(* --------------------------- Python values ----------------------------- *)
\* None, and a value that is not None, for attributes that may be None
None == <<>>
Some(x) == <<x>>
\* node.ix is None
NoIx == <<>>
\* node._doc / edge._doc is None
NoDoc == 0
\* a plain Node has no src_node
NoNode == 0
\* {} (an empty dict)
EmptyDict == [k \in {} |-> 0]

Min(a, b) == IF a < b THEN a ELSE b
Max(a, b) == IF a > b THEN a ELSE b
Range(s) == {s[i] : i \in DOMAIN s}
InSeq(x, s) == \E i \in DOMAIN s : s[i] = x

\* list.index(x)
ListIndex(s, x) == CHOOSE i \in DOMAIN s : s[i] = x /\ \A j \in 1..(i - 1) : s[j] # x
\* list.remove(x): drops the first occurrence
ListRemove(s, x) == LET i == ListIndex(s, x) IN SubSeq(s, 1, i - 1) \o SubSeq(s, i + 1, Len(s))
\* d[k] = v on a dict whose key order is kept in a list: a new key goes last
DictKeysSet(keys, k) == IF InSeq(k, keys) THEN keys ELSE Append(keys, k)
DictSet(f, k, v) == [x \in DOMAIN f \cup {k} |-> IF x = k THEN v ELSE f[x]]
DictDel(f, k) == [x \in DOMAIN f \ {k} |-> f[x]]
\* a dict is truthy when it is not empty
Truthy(f) == DOMAIN f # {}

\* str.strip(): a content is a sequence of characters, " " is the whitespace
RECURSIVE lstrip(_)
lstrip(s) == IF s # <<>> /\ Head(s) = " " THEN lstrip(Tail(s)) ELSE s
RECURSIVE rstrip(_)
rstrip(s) == IF s # <<>> /\ s[Len(s)] = " " THEN rstrip(SubSeq(s, 1, Len(s) - 1)) ELSE s
strip(s) == rstrip(lstrip(s))

\* s[start:stop] of Python: negative offsets count from the end, both are clamped
PySliceIndex(i, L) == IF i < 0 THEN Max(i + L, 0) ELSE Min(i, L)
PySlice(s, start, stop) ==
    LET a == PySliceIndex(start, Len(s))
        b == PySliceIndex(stop, Len(s))
    IN IF a >= b THEN <<>> ELSE SubSeq(s, a + 1, b)

\* Etype.__str__: the lowercase name
Etype == {"PARENT", "NEXT", "LINK"}
Etype_str(etype) == CASE etype = "PARENT" -> "parent" [] etype = "NEXT" -> "next" [] etype = "LINK" -> "link"
\* str.upper() on the persisted names, then Etype[...]
str_upper(s) == CASE s = "parent" -> "PARENT" [] s = "next" -> "NEXT" [] s = "link" -> "LINK" [] OTHER -> s

\* a heap with no object and no document
EmptyWorld == [nodes |-> EmptyDict, edges |-> EmptyDict, docs |-> EmptyDict]

(* ------------------------------ results -------------------------------- *)
Ok(w) == [w |-> w, ok |-> TRUE, err |-> ""]
Raise(w, e) == [w |-> w, ok |-> FALSE, err |-> e]
\* the statements K that follow a call: they run on the state the call left if it returned,
\* and a raise ends the sequence (the call is evaluated once)
Then(r, K(_)) == CHOOSE y \in {IF x.ok THEN K(x.w) ELSE x : x \in {r}} : TRUE

(* ------------------------------- Node ---------------------------------- *)
Node(content, ntype, meta) ==
    [kind |-> "Node", ix |-> NoIx, content |-> strip(content), ntype |-> ntype, meta |-> meta,
     incoming |-> <<>>, outgoing |-> <<>>, doc |-> NoDoc,
     src_node |-> NoNode, start |-> 0, end |-> 0, label |-> EmptyDict]

\* node.content with the end offset taken as exclusive
RECURSIVE Node_content_end_exclusive(_, _)
Node_content_end_exclusive(nodes, n) ==
    IF nodes[n].kind = "SpanNode"
    THEN PySlice(Node_content_end_exclusive(nodes, nodes[n].src_node), nodes[n].start, nodes[n].end)
    ELSE nodes[n].content

\* node.content: stored for a Node, computed from the source node for a SpanNode
RECURSIVE Node_content(_, _)
Node_content(nodes, n) ==
    IF nodes[n].kind = "SpanNode"
    THEN PySlice(Node_content(nodes, nodes[n].src_node), nodes[n].start, nodes[n].end + 1)
    ELSE nodes[n].content

\* SpanNode(ntype, src_node, start, end, meta, label); end is None or Some(k)
SpanNode(nodes, ntype, src_node, start, end, meta, label) ==
    [kind |-> "SpanNode", ix |-> NoIx, content |-> <<>>, ntype |-> ntype, meta |-> meta,
     incoming |-> <<>>, outgoing |-> <<>>, doc |-> NoDoc,
     src_node |-> src_node, start |-> start,
     end |-> IF end # None THEN end[1] ELSE Len(Node_content(nodes, src_node)),
     label |-> IF Truthy(label) THEN label ELSE EmptyDict]

\* node.content = value: stored on a Node, the empty setter on a SpanNode
Node_set_content(w, n, value) ==
    IF w.nodes[n].kind = "SpanNode" THEN w ELSE [w EXCEPT !.nodes[n].content = value]

(* ------------------------------- Edge ---------------------------------- *)
Edge(src_node, tgt_node, etype, meta) ==
    [src_node |-> src_node, tgt_node |-> tgt_node, etype |-> etype, meta |-> meta, doc |-> NoDoc]

\* edge.src_node / edge.tgt_node resolve through edge._doc._nodes: whether that succeeds
Edge_src_node_ok(w, e) ==
    /\ w.edges[e].doc # NoDoc
    /\ InSeq(w.edges[e].src_node, w.docs[w.edges[e].doc].nodes)
Edge_tgt_node_ok(w, e) ==
    /\ w.edges[e].doc # NoDoc
    /\ InSeq(w.edges[e].tgt_node, w.docs[w.edges[e].doc].nodes)
\* edge.ix: '{src.ix}_{tgt.ix}_{etype}'; an index is the sequence of its "_"-separated parts
Edge_ix(w, e) ==
    w.nodes[w.edges[e].src_node].ix \o w.nodes[w.edges[e].tgt_node].ix \o <<Etype_str(w.edges[e].etype)>>

\* Node.add_edge(edge)
Node_add_edge(w, n, e) ==
    IF ~Edge_src_node_ok(w, e) THEN Raise(w, "KeyError")
    ELSE IF w.edges[e].src_node = n
    THEN IF InSeq(e, w.nodes[n].outgoing) THEN Raise(w, "AssertionError")
         ELSE Ok([w EXCEPT !.nodes[n].outgoing = Append(@, e)])
    ELSE IF ~Edge_tgt_node_ok(w, e) THEN Raise(w, "KeyError")
    ELSE IF w.edges[e].tgt_node = n
    THEN IF InSeq(e, w.nodes[n].incoming) THEN Raise(w, "AssertionError")
         ELSE Ok([w EXCEPT !.nodes[n].incoming = Append(@, e)])
    ELSE Ok(w)

\* Node.remove_edge(edge)
Node_remove_edge(w, n, e) ==
    IF ~Edge_src_node_ok(w, e) THEN Raise(w, "KeyError")
    ELSE IF w.edges[e].src_node = n
    THEN IF ~InSeq(e, w.nodes[n].outgoing) THEN Raise(w, "ValueError")
         ELSE Ok([w EXCEPT !.nodes[n].outgoing = ListRemove(@, e)])
    ELSE IF ~Edge_tgt_node_ok(w, e) THEN Raise(w, "KeyError")
    ELSE IF w.edges[e].tgt_node = n
    THEN IF ~InSeq(e, w.nodes[n].incoming) THEN Raise(w, "ValueError")
         ELSE Ok([w EXCEPT !.nodes[n].incoming = ListRemove(@, e)])
    ELSE Ok(w)

(* -------------------------- IntertextDocument -------------------------- *)
\* the identity of the Edge object that add_node creates for span node n in document d
LinkEdgeOf(d, n) == 100 * d + n

\* IntertextDocument.add_edge(edge)
add_edge(w, d, e) ==
    LET w1 == [w EXCEPT !.edges[e].doc = d]
        D == w1.docs[d]
    IN  IF ~Edge_src_node_ok(w1, e) \/ ~Edge_tgt_node_ok(w1, e) THEN Raise(w1, "KeyError")
        ELSE IF w1.nodes[w1.edges[e].src_node].ix = NoIx \/ w1.nodes[w1.edges[e].tgt_node].ix = NoIx
        THEN Raise(w1, "AssertionError")
        ELSE IF Edge_ix(w1, e) \in DOMAIN D.edge_ix_to_uuid THEN Raise(w1, "AssertionError")
        ELSE LET r1 == Node_add_edge(w1, w1.edges[e].src_node, e)
             IN  IF ~r1.ok THEN r1
                 ELSE LET r2 == Node_add_edge(r1.w, w1.edges[e].tgt_node, e)
                      IN  IF ~r2.ok THEN r2
                          ELSE IF ~D.edges_defined THEN Raise(r2.w, "AttributeError")
                          ELSE Ok([r2.w EXCEPT
                                     !.docs[d].edges = DictKeysSet(@, e),
                                     !.docs[d].edge_ix_to_uuid = DictSet(@, Edge_ix(w1, e), e)])

\* add_node without "assert node.ix not in self._node_ix_to_uuid"
add_node_unchecked(w, d, n) ==
    LET counter == w.docs[d].meta["ix_counter"] + 1
        ix == IF w.nodes[n].ix = NoIx THEN w.docs[d].prefix \o <<ToString(counter)>> ELSE w.nodes[n].ix
        w2 == [w EXCEPT !.docs[d].meta["ix_counter"] = counter,
                        !.nodes[n].ix = ix,
                        !.nodes[n].incoming = <<>>,
                        !.nodes[n].outgoing = <<>>,
                        !.nodes[n].doc = d,
                        !.docs[d].nodes = DictKeysSet(@, n),
                        !.docs[d].node_ix_to_uuid = DictSet(@, ix, n)]
    IN  IF ~w2.docs[d].init_from_existing_doc /\ w2.nodes[n].kind = "SpanNode"
        THEN add_edge([w2 EXCEPT !.edges = DictSet(@, LinkEdgeOf(d, n),
                                       [Edge(w2.nodes[n].src_node, n, "LINK", None) EXCEPT !.doc = d])],
                      d, LinkEdgeOf(d, n))
        ELSE Ok(w2)

\* add_node with "self.meta['ix_counter'] += 1" placed after the assertion
add_node_counter_after_assert(w, d, n) ==
    IF "ix_counter" \notin DOMAIN w.docs[d].meta THEN Raise(w, "KeyError")
    ELSE
    LET counter == w.docs[d].meta["ix_counter"] + 1
        ix == IF w.nodes[n].ix = NoIx THEN w.docs[d].prefix \o <<ToString(counter)>> ELSE w.nodes[n].ix
        w1 == [w EXCEPT !.nodes[n].ix = ix,
                        !.nodes[n].incoming = <<>>,
                        !.nodes[n].outgoing = <<>>,
                        !.nodes[n].doc = d]
    IN  IF ix \in DOMAIN w1.docs[d].node_ix_to_uuid THEN Raise(w1, "AssertionError")
        ELSE
        LET w2 == [w1 EXCEPT !.docs[d].meta["ix_counter"] = counter,
                             !.docs[d].nodes = DictKeysSet(@, n),
                             !.docs[d].node_ix_to_uuid = DictSet(@, ix, n)]
            N == w2.nodes[n]
        IN  IF ~w2.docs[d].init_from_existing_doc /\ N.kind = "SpanNode"
            THEN LET e == LinkEdgeOf(d, n)
                     meta == IF N.meta # None /\ Truthy(N.meta[1]) /\ "created_by" \in DOMAIN N.meta[1]
                             THEN Some([created_by |-> N.meta[1]["created_by"]])
                             ELSE None
                     edge == [Edge(N.src_node, n, "LINK", meta) EXCEPT !.doc = d]
                     w3 == [w2 EXCEPT !.edges = DictSet(@, e, edge)]
                 IN  add_edge(w3, d, e)
            ELSE Ok(w2)

\* IntertextDocument.add_node(node)
add_node(w, d, n) ==
    IF "ix_counter" \notin DOMAIN w.docs[d].meta THEN Raise(w, "KeyError")
    ELSE
    LET counter == w.docs[d].meta["ix_counter"] + 1
        ix == IF w.nodes[n].ix = NoIx THEN w.docs[d].prefix \o <<ToString(counter)>> ELSE w.nodes[n].ix
        w1 == [w EXCEPT !.docs[d].meta["ix_counter"] = counter,
                        !.nodes[n].ix = ix,
                        !.nodes[n].incoming = <<>>,
                        !.nodes[n].outgoing = <<>>,
                        !.nodes[n].doc = d]
    IN  IF ix \in DOMAIN w1.docs[d].node_ix_to_uuid THEN Raise(w1, "AssertionError")
        ELSE
        LET w2 == [w1 EXCEPT !.docs[d].nodes = DictKeysSet(@, n),
                             !.docs[d].node_ix_to_uuid = DictSet(@, ix, n)]
            N == w2.nodes[n]
        IN  IF ~w2.docs[d].init_from_existing_doc /\ N.kind = "SpanNode"
            THEN LET e == LinkEdgeOf(d, n)
                     meta == IF N.meta # None /\ Truthy(N.meta[1]) /\ "created_by" \in DOMAIN N.meta[1]
                             THEN Some([created_by |-> N.meta[1]["created_by"]])
                             ELSE None
                     edge == [Edge(N.src_node, n, "LINK", meta) EXCEPT !.doc = d]
                     w3 == [w2 EXCEPT !.edges = DictSet(@, e, edge)]
                 IN  add_edge(w3, d, e)
            ELSE Ok(w2)

\* remove_edge without "edge.tgt_node.remove_edge(edge)"
remove_edge_src_only(w, d, e) ==
    IF ~Edge_src_node_ok(w, e) THEN Raise(w, IF w.edges[e].doc = NoDoc THEN "AssertionError" ELSE "KeyError")
    ELSE LET r1 == Node_remove_edge(w, w.edges[e].src_node, e)
         IN  IF ~r1.ok THEN r1
             ELSE IF ~r1.w.docs[d].edges_defined THEN Raise(r1.w, "AttributeError")
             ELSE IF ~InSeq(e, r1.w.docs[d].edges) THEN Raise(r1.w, "KeyError")
             ELSE LET w3 == [r1.w EXCEPT !.docs[d].edges = ListRemove(@, e)]
                  IN  IF Edge_ix(w3, e) \notin DOMAIN w3.docs[d].edge_ix_to_uuid
                      THEN Raise(w3, "KeyError")
                      ELSE Ok([w3 EXCEPT !.docs[d].edge_ix_to_uuid = DictDel(@, Edge_ix(w3, e))])

\* IntertextDocument.remove_edge(edge)
remove_edge(w, d, e) ==
    IF ~Edge_src_node_ok(w, e) THEN Raise(w, IF w.edges[e].doc = NoDoc THEN "AssertionError" ELSE "KeyError")
    ELSE LET r1 == Node_remove_edge(w, w.edges[e].src_node, e)
         IN  IF ~r1.ok THEN r1
             ELSE IF ~Edge_tgt_node_ok(r1.w, e) THEN Raise(r1.w, "KeyError")
             ELSE LET r2 == Node_remove_edge(r1.w, w.edges[e].tgt_node, e)
                  IN  IF ~r2.ok THEN r2
                      ELSE IF ~r2.w.docs[d].edges_defined THEN Raise(r2.w, "AttributeError")
                      ELSE IF ~InSeq(e, r2.w.docs[d].edges) THEN Raise(r2.w, "KeyError")
                      ELSE LET w3 == [r2.w EXCEPT !.docs[d].edges = ListRemove(@, e)]
                           IN  IF Edge_ix(w3, e) \notin DOMAIN w3.docs[d].edge_ix_to_uuid
                               THEN Raise(w3, "KeyError")
                               ELSE Ok([w3 EXCEPT !.docs[d].edge_ix_to_uuid = DictDel(@, Edge_ix(w3, e))])

\* the loop of remove_node over the edge objects collected before it starts
RECURSIVE remove_edges(_, _, _)
remove_edges(w, d, es) ==
    IF es = <<>> THEN Ok(w)
    ELSE LET r == remove_edge(w, d, Head(es))
         IN  IF ~r.ok THEN r ELSE remove_edges(r.w, d, Tail(es))

\* node.incoming_edges / node.outgoing_edges resolve through node._doc._edges: whether that succeeds
Node_edges_ok(w, n) ==
    /\ w.nodes[n].doc # NoDoc
    /\ w.docs[w.nodes[n].doc].edges_defined
    /\ \A e \in Range(w.nodes[n].incoming) \cup Range(w.nodes[n].outgoing) :
          InSeq(e, w.docs[w.nodes[n].doc].edges)

\* IntertextDocument.remove_node(node)
remove_node(w, d, n) ==
    IF ~Node_edges_ok(w, n) THEN Raise(w, IF w.nodes[n].doc = NoDoc THEN "AttributeError" ELSE "KeyError")
    ELSE LET r == remove_edges(w, d, w.nodes[n].incoming \o w.nodes[n].outgoing)
         IN  IF ~r.ok THEN r
             ELSE IF ~InSeq(n, r.w.docs[d].nodes) THEN Raise(r.w, "KeyError")
             ELSE LET w1 == [r.w EXCEPT !.docs[d].nodes = ListRemove(@, n)]
                  IN  IF w1.nodes[n].ix \notin DOMAIN w1.docs[d].node_ix_to_uuid THEN Raise(w1, "KeyError")
                      ELSE Ok([w1 EXCEPT !.docs[d].node_ix_to_uuid = DictDel(@, w1.nodes[n].ix)])

\* IntertextDocument.get_node_by_ix(ix): Some(node), or None where it raises KeyError
get_node_by_ix(w, d, ix) ==
    IF ix \in DOMAIN w.docs[d].node_ix_to_uuid /\ InSeq(w.docs[d].node_ix_to_uuid[ix], w.docs[d].nodes)
    THEN Some(w.docs[d].node_ix_to_uuid[ix]) ELSE None

\* IntertextDocument.get_edge_by_ix(ix)
get_edge_by_ix(w, d, ix) ==
    IF ix \in DOMAIN w.docs[d].edge_ix_to_uuid /\ InSeq(w.docs[d].edge_ix_to_uuid[ix], w.docs[d].edges)
    THEN Some(w.docs[d].edge_ix_to_uuid[ix]) ELSE None

RECURSIVE add_nodes(_, _, _)
add_nodes(w, d, ns) ==
    IF ns = <<>> THEN Ok(w)
    ELSE LET r == add_node(w, d, Head(ns))
         IN  IF ~r.ok THEN r ELSE add_nodes(r.w, d, Tail(ns))

RECURSIVE add_edges(_, _, _)
add_edges(w, d, es) ==
    IF es = <<>> THEN Ok(w)
    ELSE LET r == add_edge(w, d, Head(es))
         IN  IF ~r.ok THEN r ELSE add_edges(r.w, d, Tail(es))

\* self.meta = meta or {}, then the default ix_counter
IntertextDocument_meta(meta) ==
    LET m == IF meta # None /\ Truthy(meta[1]) THEN meta[1] ELSE EmptyDict
    IN  IF "ix_counter" \notin DOMAIN m THEN DictSet(m, "ix_counter", -1) ELSE m

\* IntertextDocument.__init__(nodes, edges, prefix, meta), building document d
IntertextDocument_init(w, d, nodes, edges, prefix, meta) ==
    LET doc0 == [prefix |-> prefix, meta |-> IntertextDocument_meta(meta),
                 nodes |-> <<>>, node_ix_to_uuid |-> EmptyDict,
                 edges |-> <<>>, edges_defined |-> FALSE, edge_ix_to_uuid |-> EmptyDict,
                 init_from_existing_doc |-> FALSE]
        w0 == [w EXCEPT !.docs = DictSet(@, d, doc0)]
        r1 == add_nodes(w0, d, nodes)
    IN  IF ~r1.ok THEN r1
        ELSE add_edges([r1.w EXCEPT !.docs[d].edges_defined = TRUE], d, edges)

(* ------------------------------ traversal ------------------------------ *)
\* node.outgoing_edges / node.incoming_edges resolve through node._doc._edges: whether that succeeds
\* (an empty list is resolved without a look at node._doc)
Node_outgoing_ok(w, n) ==
    \/ w.nodes[n].outgoing = <<>>
    \/ /\ w.nodes[n].doc # NoDoc
       /\ w.docs[w.nodes[n].doc].edges_defined
       /\ \A e \in Range(w.nodes[n].outgoing) : InSeq(e, w.docs[w.nodes[n].doc].edges)
Node_incoming_ok(w, n) ==
    \/ w.nodes[n].incoming = <<>>
    \/ /\ w.nodes[n].doc # NoDoc
       /\ w.docs[w.nodes[n].doc].edges_defined
       /\ \A e \in Range(w.nodes[n].incoming) : InSeq(e, w.docs[w.nodes[n].doc].edges)

\* Node.get_edges(etype, outgoing, incoming): the outgoing block, then the incoming block;
\* etype None keeps every edge
Node_get_edges(w, n, etype, outgoing, incoming) ==
    LET keep(e) == etype = None \/ w.edges[e].etype = etype[1]
    IN  (IF outgoing THEN SelectSeq(w.nodes[n].outgoing, keep) ELSE <<>>)
        \o (IF incoming THEN SelectSeq(w.nodes[n].incoming, keep) ELSE <<>>)

\* the loop of root with get_edges called without the edge type
RECURSIVE root_scan_any_etype(_, _)
root_scan_any_etype(w, ns) ==
    IF ns = <<>> THEN [ok |-> TRUE, node |-> None]
    ELSE IF ~Node_incoming_ok(w, Head(ns)) THEN [ok |-> FALSE, node |-> None]
    ELSE IF Node_get_edges(w, Head(ns), None, FALSE, TRUE) # <<>> THEN root_scan_any_etype(w, Tail(ns))
    ELSE IF ~Node_outgoing_ok(w, Head(ns)) THEN [ok |-> FALSE, node |-> None]
    ELSE IF Node_get_edges(w, Head(ns), None, TRUE, FALSE) # <<>> THEN [ok |-> TRUE, node |-> Some(Head(ns))]
    ELSE root_scan_any_etype(w, Tail(ns))

\* the loop of root over self.nodes: [ok, node], node None when the loop ends without a return
RECURSIVE root_scan(_, _)
root_scan(w, ns) ==
    IF ns = <<>> THEN [ok |-> TRUE, node |-> None]
    ELSE IF ~Node_incoming_ok(w, Head(ns)) THEN [ok |-> FALSE, node |-> None]
    ELSE IF Node_get_edges(w, Head(ns), Some("NEXT"), FALSE, TRUE) # <<>> THEN root_scan(w, Tail(ns))
    ELSE IF ~Node_outgoing_ok(w, Head(ns)) THEN [ok |-> FALSE, node |-> None]
    ELSE IF Node_get_edges(w, Head(ns), Some("NEXT"), TRUE, FALSE) # <<>> THEN [ok |-> TRUE, node |-> Some(Head(ns))]
    ELSE root_scan(w, Tail(ns))

\* IntertextDocument.root
root(w, d) ==
    IF Len(w.docs[d].nodes) = 1 THEN [ok |-> TRUE, node |-> Some(w.docs[d].nodes[1])]
    ELSE root_scan(w, w.docs[d].nodes)

\* IntertextDocument.breadcrumbs(node, etype), after the nodes in seen were yielded:
\* [ok, err, path], path the nodes yielded in order; on a cycle the walk repeats the
\* nodes of path until the recursion limit is hit
RECURSIVE breadcrumbs_from(_, _, _, _)
breadcrumbs_from(w, n, etype, seen) ==
    IF InSeq(n, seen) THEN [ok |-> FALSE, err |-> "RecursionError", path |-> seen]
    ELSE IF ~Node_incoming_ok(w, n) THEN [ok |-> FALSE, err |-> "KeyError", path |-> Append(seen, n)]
    ELSE LET es == Node_get_edges(w, n, Some(etype), FALSE, TRUE)
         IN  IF es = <<>> THEN [ok |-> TRUE, err |-> "", path |-> Append(seen, n)]
             ELSE IF ~Edge_src_node_ok(w, Head(es)) THEN [ok |-> FALSE, err |-> "KeyError", path |-> Append(seen, n)]
             ELSE breadcrumbs_from(w, w.edges[Head(es)].src_node, etype, Append(seen, n))

\* IntertextDocument.breadcrumbs(node, etype)
breadcrumbs(w, n, etype) == breadcrumbs_from(w, n, etype, <<>>)

\* a comparison that returns val, and one that raises err
Returns(val) == [ok |-> TRUE, val |-> val, err |-> ""]
Raises(err) == [ok |-> FALSE, val |-> FALSE, err |-> err]

\* Node.__lt__ with "return False" at the end of both branches
Node_lt_else_false(w, self, other) ==
    IF w.nodes[self].doc = NoDoc THEN Raises("AssertionError")
    ELSE LET nodes == w.docs[w.nodes[self].doc].nodes
         IN  IF ~InSeq(other, nodes) THEN Raises("AssertionError")
             ELSE IF ~InSeq(self, nodes) THEN Raises("ValueError")
             ELSE IF ListIndex(nodes, self) < ListIndex(nodes, other)
             THEN LET b == breadcrumbs(w, other, "NEXT")
                  IN  IF InSeq(self, b.path) THEN Returns(TRUE)
                      ELSE IF b.ok THEN Returns(FALSE) ELSE Raises(b.err)
             ELSE LET b == breadcrumbs(w, self, "NEXT")
                  IN  IF InSeq(other, b.path) THEN Returns(FALSE)
                      ELSE IF b.ok THEN Returns(FALSE) ELSE Raises(b.err)

\* Node.__lt__(self, other)
Node_lt(w, self, other) ==
    IF w.nodes[self].doc = NoDoc THEN Raises("AssertionError")
    ELSE LET nodes == w.docs[w.nodes[self].doc].nodes
         IN  IF ~InSeq(other, nodes) THEN Raises("AssertionError")
             ELSE IF ~InSeq(self, nodes) THEN Raises("ValueError")
             ELSE IF ListIndex(nodes, self) < ListIndex(nodes, other)
             THEN LET b == breadcrumbs(w, other, "NEXT")
                  IN  IF InSeq(self, b.path) THEN Returns(TRUE)
                      ELSE IF b.ok THEN Returns(FALSE) ELSE Raises(b.err)
             ELSE LET b == breadcrumbs(w, self, "NEXT")
                  IN  IF InSeq(other, b.path) THEN Returns(FALSE)
                      ELSE IF b.ok THEN Returns(TRUE) ELSE Raises(b.err)

\* Node.__le__: self < other or self == other
Node_le(w, self, other) ==
    LET r == Node_lt(w, self, other)
    IN  IF ~r.ok THEN r ELSE Returns(r.val \/ self = other)

\* Node.__gt__: other < self
Node_gt(w, self, other) == Node_lt(w, other, self)

\* Node.__ge__: self > other or self == other
Node_ge(w, self, other) ==
    LET r == Node_gt(w, self, other)
    IN  IF ~r.ok THEN r ELSE Returns(r.val \/ self = other)

\* tree_distance with the difference of the two sets instead of the symmetric difference
tree_distance_one_sided(w, n_1, n_2, etype) ==
    LET b_1 == breadcrumbs(w, n_1, etype)
        b_2 == breadcrumbs(w, n_2, etype)
    IN  IF ~b_1.ok THEN Raises(b_1.err)
        ELSE IF ~b_2.ok THEN Raises(b_2.err)
        ELSE Returns(Cardinality(Range(b_1.path) \ Range(b_2.path)))

\* IntertextDocument.tree_distance(n_1, n_2, etype): len(b_1 ^ b_2)
tree_distance(w, n_1, n_2, etype) ==
    LET b_1 == breadcrumbs(w, n_1, etype)
        b_2 == breadcrumbs(w, n_2, etype)
    IN  IF ~b_1.ok THEN Raises(b_1.err)
        ELSE IF ~b_2.ok THEN Raises(b_2.err)
        ELSE Returns(Cardinality((Range(b_1.path) \ Range(b_2.path)) \cup (Range(b_2.path) \ Range(b_1.path))))

\* one pass of "for e in current_node.get_edges(Etype.NEXT, incoming=False)" for edge e,
\* on the locals st = [queue, breadcrumbs, ok]
unroll_visit_by_node(w, st, e) ==
    IF ~st.ok THEN st
    ELSE IF ~Edge_src_node_ok(w, e) \/ ~Edge_tgt_node_ok(w, e) THEN [st EXCEPT !.ok = FALSE]
    ELSE IF w.nodes[w.edges[e].tgt_node].ix \notin Range(st.breadcrumbs)
    THEN [st EXCEPT !.breadcrumbs = Append(@, w.nodes[w.edges[e].tgt_node].ix), !.queue = Append(@, w.edges[e].tgt_node)]
    ELSE st

unroll_visit_unguarded(w, st, e) ==
    IF ~st.ok THEN st
    ELSE IF ~Edge_src_node_ok(w, e) \/ ~Edge_tgt_node_ok(w, e) THEN [st EXCEPT !.ok = FALSE]
    ELSE [st EXCEPT !.breadcrumbs = Append(@, Edge_ix(w, e)), !.queue = Append(@, w.edges[e].tgt_node)]

unroll_visit(w, st, e) ==
    IF ~st.ok THEN st
    ELSE IF ~Edge_src_node_ok(w, e) \/ ~Edge_tgt_node_ok(w, e) THEN [st EXCEPT !.ok = FALSE]
    ELSE IF Edge_ix(w, e) \notin Range(st.breadcrumbs)
    THEN [st EXCEPT !.breadcrumbs = Append(@, Edge_ix(w, e)), !.queue = Append(@, w.edges[e].tgt_node)]
    ELSE st

RECURSIVE unroll_for(_, _, _)
unroll_for(w, st, es) == IF es = <<>> THEN st ELSE unroll_for(w, unroll_visit(w, st, Head(es)), Tail(es))

\* one pass of "while queue" of _unroll_graph on the locals [queue, breadcrumbs, result, ok]
unroll_while(w, st) ==
    LET current_node == Head(st.queue)
        popped == [st EXCEPT !.queue = Tail(@)]
    IN  IF current_node = NoNode THEN [popped EXCEPT !.ok = FALSE]
        ELSE IF ~Node_outgoing_ok(w, current_node) THEN [popped EXCEPT !.ok = FALSE]
        ELSE LET after == unroll_for(w, popped, Node_get_edges(w, current_node, Some("NEXT"), TRUE, FALSE))
             IN  IF ~after.ok THEN after ELSE [after EXCEPT !.result = Append(@, current_node)]

(* ----------------------------- persistence ---------------------------- *)
\* IntertextEncoder.default on a Node, a SpanNode and an Edge
IntertextEncoder_node(w, n) ==
    [ix |-> w.nodes[n].ix, content |-> Node_content(w.nodes, n),
     ntype |-> w.nodes[n].ntype, meta |-> w.nodes[n].meta]
IntertextEncoder_span(w, n) ==
    [ix |-> w.nodes[n].ix, content |-> Node_content(w.nodes, n),
     ntype |-> w.nodes[n].ntype, meta |-> w.nodes[n].meta,
     src_ix |-> w.nodes[w.nodes[n].src_node].ix,
     start |-> w.nodes[n].start, end |-> w.nodes[n].end, label |-> w.nodes[n].label]
IntertextEncoder_edge(w, e) ==
    [src_ix |-> w.nodes[w.edges[e].src_node].ix, tgt_ix |-> w.nodes[w.edges[e].tgt_node].ix,
     etype |-> Etype_str(w.edges[e].etype), meta |-> w.edges[e].meta]

IsSpan(w, n) == w.nodes[n].kind = "SpanNode"
IsPlain(w, n) == w.nodes[n].kind = "Node"

\* IntertextDocument.to_json(), parsed again: [ok, data]; encoding an edge resolves both endpoints
to_json(w, d) ==
    LET D == w.docs[d]
        plain == SelectSeq(D.nodes, LAMBDA n : IsPlain(w, n))
        spans == SelectSeq(D.nodes, LAMBDA n : IsSpan(w, n))
        edges_ok == D.edges_defined /\ \A e \in Range(D.edges) : Edge_src_node_ok(w, e) /\ Edge_tgt_node_ok(w, e)
    IN  IF ~edges_ok THEN [ok |-> FALSE, data |-> <<>>]
        ELSE [ok |-> TRUE,
              data |-> [nodes |-> [i \in DOMAIN plain |-> IntertextEncoder_node(w, plain[i])],
                        span_nodes |-> [i \in DOMAIN spans |-> IntertextEncoder_span(w, spans[i])],
                        edges |-> [i \in DOMAIN D.edges |-> IntertextEncoder_edge(w, D.edges[i])],
                        prefix |-> D.prefix,
                        meta |-> D.meta]]

\* a new object gets the next free identity of its heap
NewId(heap) == Cardinality(DOMAIN heap) + 1

\* the loop of _from_json over data['nodes']
RECURSIVE from_json_nodes(_, _, _)
from_json_nodes(w, d, ns) ==
    IF ns = <<>> THEN Ok(w)
    ELSE LET n == Head(ns)
             id == NewId(w.nodes)
             node == [Node(n.content, n.ntype, n.meta) EXCEPT !.ix = n.ix]
             r == add_node([w EXCEPT !.nodes = DictSet(@, id, node)], d, id)
         IN  Then(r, LAMBDA w2 : from_json_nodes(w2, d, Tail(ns)))

\* the loop of _from_json over data['span_nodes']
RECURSIVE from_json_span_nodes(_, _, _)
from_json_span_nodes(w, d, sns) ==
    IF sns = <<>> THEN Ok(w)
    ELSE LET sn == Head(sns)
             src == get_node_by_ix(w, d, sn.src_ix)
         IN  IF src = None THEN Raise(w, "KeyError")
             ELSE LET id == NewId(w.nodes)
                      node == [SpanNode(w.nodes, sn.ntype, src[1], sn.start, Some(sn.end), sn.meta, sn.label)
                                 EXCEPT !.ix = sn.ix]
                      r == add_node([w EXCEPT !.nodes = DictSet(@, id, node)], d, id)
                  IN  Then(r, LAMBDA w2 : from_json_span_nodes(w2, d, Tail(sns)))

\* the loop of _from_json over data['edges']
RECURSIVE from_json_edges(_, _, _)
from_json_edges(w, d, es) ==
    IF es = <<>> THEN Ok(w)
    ELSE LET e == Head(es)
             src == get_node_by_ix(w, d, e.src_ix)
             tgt == get_node_by_ix(w, d, e.tgt_ix)
         IN  IF src = None \/ tgt = None THEN Raise(w, "KeyError")
             ELSE IF str_upper(e.etype) \notin Etype THEN Raise(w, "KeyError")
             ELSE LET id == NewId(w.edges)
                      edge == Edge(src[1], tgt[1], str_upper(e.etype), e.meta)
                      r == add_edge([w EXCEPT !.edges = DictSet(@, id, edge)], d, id)
                  IN  Then(r, LAMBDA w2 : from_json_edges(w2, d, Tail(es)))

\* itg.meta is data['meta'] itself (not a copy) when data['meta'] is not empty:
\* what data['meta'] holds once the nodes are loaded into the world w
from_json_data_meta(w, d, data) == IF Truthy(data.meta) THEN w.docs[d].meta ELSE data.meta

\* "Reset the ix counter which has been increased by add_node()"
from_json_reset(w, d, data) ==
    LET dm == from_json_data_meta(w, d, data)
    IN  IF "ix_counter" \in DOMAIN dm THEN [w EXCEPT !.docs[d].meta = DictSet(@, "ix_counter", dm["ix_counter"])]
        ELSE w

\* IntertextDocument._from_json(data): the document is document LoadedDoc of a heap of its own
LoadedDoc == 1
from_json(data) ==
    LET d == LoadedDoc
    IN  Then(IntertextDocument_init(EmptyWorld, d, <<>>, <<>>, data.prefix, Some(data.meta)), LAMBDA w0 :
        Then(from_json_nodes([w0 EXCEPT !.docs[d].init_from_existing_doc = TRUE], d, data.nodes), LAMBDA w2 :
        Then(from_json_span_nodes(w2, d, data.span_nodes), LAMBDA w3 :
        Then(from_json_edges(from_json_reset(w3, d, data), d, data.edges), LAMBDA w4 :
        Ok([w4 EXCEPT !.docs[d].init_from_existing_doc = FALSE])))))

\* load_json(save_json(d)): from_json of the parsed to_json of document d
round_trip(w, d) ==
    LET j == to_json(w, d)
    IN  IF ~j.ok THEN Raise(EmptyWorld, "KeyError") ELSE from_json(j.data)

(* ----------------------------- multi-graph ----------------------------- *)
\* dict.update(other)
DictUpdate(f, g) == [k \in DOMAIN f \cup DOMAIN g |-> IF k \in DOMAIN g THEN g[k] ELSE f[k]]

\* IntertextMultiGraph.__init__: "for doc in args" on the locals [nodes, edges, meta];
\* merge is "'meta' not in kwargs"
RECURSIVE multi_collect(_, _, _, _)
multi_collect(w, acc, args, merge) ==
    IF args = <<>> THEN acc
    ELSE LET D == w.docs[Head(args)]
         IN  multi_collect(w, [nodes |-> acc.nodes \o D.nodes,
                               edges |-> acc.edges \o D.edges,
                               meta |-> IF merge /\ Truthy(D.meta) THEN DictUpdate(acc.meta, D.meta)
                                        ELSE acc.meta],
                           Tail(args), merge)

\* IntertextMultiGraph(*args, meta=...), building document m; meta is None without the keyword
IntertextMultiGraph_init(w, m, args, meta) ==
    LET r0 == IntertextDocument_init(w, m, <<>>, <<>>, <<>>, Some(EmptyDict))
        acc == multi_collect(w, [nodes |-> <<>>, edges |-> <<>>,
                                 meta |-> IF meta # None THEN meta[1] ELSE EmptyDict],
                             args, meta = None)
        w1 == [r0.w EXCEPT !.docs[m].meta = acc.meta,
                           !.docs[m].prefix = <<"multi">>,
                           !.docs[m].init_from_existing_doc = TRUE]
    IN  IF \E i \in DOMAIN args : ~w.docs[args[i]].edges_defined THEN Raise(r0.w, "AttributeError")
        ELSE Then(add_nodes(w1, m, acc.nodes), LAMBDA w2 :
             Then(add_edges(w2, m, acc.edges), LAMBDA w3 :
             Ok([w3 EXCEPT !.docs[m].init_from_existing_doc = FALSE])))

\* IntertextMultiGraph.roots, as the list of the nodes it yields
RECURSIVE roots_scan(_, _)
roots_scan(w, ns) ==
    IF ns = <<>> THEN Returns(<<>>)
    ELSE IF ~Node_incoming_ok(w, Head(ns)) THEN Raises("KeyError")
    ELSE IF Node_get_edges(w, Head(ns), Some("NEXT"), FALSE, TRUE) # <<>> THEN roots_scan(w, Tail(ns))
    ELSE IF ~Node_outgoing_ok(w, Head(ns)) THEN Raises("KeyError")
    ELSE LET rest == roots_scan(w, Tail(ns))
         IN  IF ~rest.ok THEN rest
             ELSE IF Node_get_edges(w, Head(ns), Some("NEXT"), TRUE, FALSE) # <<>>
             THEN Returns(<<Head(ns)>> \o rest.val)
             ELSE rest
roots(w, m) == roots_scan(w, w.docs[m].nodes)

\* IntertextMultiGraph.root: "raise NotImplemented" raises TypeError
IntertextMultiGraph_root(w, m) == Raises("TypeError")

\* IntertextMultiGraph.unroll_graph
IntertextMultiGraph_unroll_graph(w, m) == Raises("NotImplementedError")

\* _unroll_graph(node): the while loop run to its end; every pass but the first
\* pops a node that a distinct edge index queued
RECURSIVE unroll_run(_, _, _)
unroll_run(w, st, fuel) ==
    IF ~st.ok \/ st.queue = <<>> \/ fuel = 0 THEN st
    ELSE unroll_run(w, unroll_while(w, st), fuel - 1)
unroll_graph_from(w, node) ==
    LET st == unroll_run(w, [queue |-> <<node>>, breadcrumbs |-> <<>>, result |-> <<>>, ok |-> TRUE],
                         Cardinality(DOMAIN w.edges) + 1)
    IN  IF st.ok THEN Returns(st.result) ELSE Raises("AttributeError")

\* IntertextDocument.unroll_graph()
unroll_graph(w, d) ==
    LET r == root(w, d)
    IN  IF ~r.ok THEN Raises("KeyError")
        ELSE unroll_graph_from(w, IF r.node = None THEN NoNode ELSE r.node[1])

(* --------------------------- the object pools -------------------------- *)
\* the prefix 'doc' of the document under test
Prefix == <<"doc">>
TheDoc == 1

\* a Node with ix unset, a Node with a pre-set ix of the automatic form, a SpanNode;
\* two Edge objects with the same endpoints and type, and a self-loop
PoolNodes ==
    LET plain == (1 :> Node(<<" ", "a", "b", " ">>, "p", None)) @@
                 (2 :> [Node(<<"c", "d">>, "p", Some([k |-> "v"])) EXCEPT !.ix = <<"doc", "1">>])
    IN  plain @@ (3 :> SpanNode(plain, "s", 1, 0, Some(0), Some([created_by |-> "splitter"]), EmptyDict))
PoolEdges ==
    (1 :> Edge(1, 2, "NEXT", None)) @@
    (2 :> Edge(1, 2, "NEXT", Some([k |-> "w"]))) @@
    (3 :> Edge(2, 2, "NEXT", None))

\* two Nodes, a SpanNode over a Node and a SpanNode over that SpanNode
PoolNodesOK ==
    LET plain == (1 :> Node(<<" ", "a", "b", " ">>, "p", None)) @@
                 (2 :> Node(<<"c", "d">>, "p", Some([k |-> "v"])))
        s3 == (3 :> SpanNode(plain, "s", 1, 0, Some(0), Some([created_by |-> "splitter"]), EmptyDict))
        s4 == (4 :> SpanNode(plain @@ s3, "s", 3, 0, None, None, [tag |-> "x"]))
    IN  plain @@ s3 @@ s4
PoolEdgesOK ==
    (1 :> Edge(1, 2, "NEXT", None)) @@
    (2 :> Edge(2, 1, "PARENT", Some([k |-> "w"])))

\* the pool objects and IntertextDocument([], [], 'doc') as document TheDoc
NewWorld(nodes, edges) ==
    IntertextDocument_init([nodes |-> nodes, edges |-> edges, docs |-> EmptyDict],
                           TheDoc, <<>>, <<>>, Prefix, None).w

\* the caller holds the Edge objects it made (identities below 100); an Edge object
\* made by add_node is freed once no table or list refers to it
Collect(w) ==
    LET live == UNION {Range(w.docs[d].edges) : d \in DOMAIN w.docs}
                \cup UNION {Range(w.nodes[n].incoming) \cup Range(w.nodes[n].outgoing) : n \in DOMAIN w.nodes}
                \cup {e \in DOMAIN w.edges : e < 100}
    IN  [w EXCEPT !.edges = [e \in DOMAIN w.edges \cap live |-> w.edges[e]]]

(* ------------------------------- actions ------------------------------- *)
Idle == pc = "idle"
UnrollUnchanged == UNCHANGED <<pc, u_queue, u_breadcrumbs, u_result>>

Call(op, arg, r) ==
    /\ world' = Collect(r.w)
    /\ last' = [op |-> op, arg |-> arg, ok |-> r.ok, err |-> r.err]
    /\ ret' = None
    /\ UnrollUnchanged

AddNode(n) ==
    /\ Idle
    /\ "ix_counter" \in DOMAIN world.docs[TheDoc].meta
    /\ world.docs[TheDoc].meta["ix_counter"] < MaxCounter
    /\ Call("add_node", n, add_node(world, TheDoc, n))

AddEdge(e) ==
    /\ Idle
    /\ Call("add_edge", e, add_edge(world, TheDoc, e))

RemoveNode(n) ==
    /\ Idle
    /\ Call("remove_node", n, remove_node(world, TheDoc, n))

RemoveEdge(e) ==
    /\ Idle
    /\ Call("remove_edge", e, remove_edge(world, TheDoc, e))

\* d.to_json() and _from_json of it; the loaded document is the value returned
LoadJson ==
    /\ Idle
    /\ LET r == round_trip(world, TheDoc)
       IN  /\ last' = [op |-> "load_json", arg |-> 0, ok |-> r.ok, err |-> r.err]
           /\ ret' = IF r.ok THEN Some(r.w) ELSE None
    /\ UNCHANGED world
    /\ UnrollUnchanged

InitWith(nodes, edges) ==
    /\ world = NewWorld(nodes, edges)
    /\ last = [op |-> "init", arg |-> 0, ok |-> TRUE, err |-> ""]
    /\ ret = None
    /\ pc = "idle"
    /\ u_queue = <<>>
    /\ u_breadcrumbs = <<>>
    /\ u_result = <<>>

\* every call, returning or raising, on one document
Init == InitWith(PoolNodes, PoolEdges)

Next ==
    \/ \E n \in DOMAIN world.nodes : AddNode(n)
    \/ \E e \in DOMAIN world.edges : AddEdge(e)
    \/ \E n \in DOMAIN world.nodes : RemoveNode(n)
    \/ \E e \in DOMAIN world.edges : RemoveEdge(e)

Spec == Init /\ [][Next]_vars

\* the calls that return, and saving and loading the document
InitOK == InitWith(PoolNodesOK, PoolEdgesOK)

NextOK ==
    \/ \E n \in DOMAIN world.nodes : AddNode(n) /\ last'.ok
    \/ \E e \in DOMAIN world.edges : AddEdge(e) /\ last'.ok
    \/ \E n \in DOMAIN world.nodes : RemoveNode(n) /\ last'.ok
    \/ \E e \in DOMAIN world.edges : RemoveEdge(e) /\ last'.ok
    \/ LoadJson

SpecOK == InitOK /\ [][NextOK]_vars

\* the calls that return, on the objects of Init (two edges with the same endpoints, a self-loop)
NextReturn ==
    \/ \E n \in DOMAIN world.nodes : AddNode(n) /\ last'.ok
    \/ \E e \in DOMAIN world.edges : AddEdge(e) /\ last'.ok
    \/ \E n \in DOMAIN world.nodes : RemoveNode(n) /\ last'.ok
    \/ \E e \in DOMAIN world.edges : RemoveEdge(e) /\ last'.ok

SpecReturn == Init /\ [][NextReturn]_vars

(* ------------------------------ unrolling ------------------------------ *)
\* four Nodes, six NEXT edges among them (cycles, paths that meet again, forks) and a PARENT edge
PoolNodesUnroll ==
    (1 :> Node(<<"a">>, "p", None)) @@ (2 :> Node(<<"b">>, "p", None)) @@
    (3 :> Node(<<"c">>, "p", None)) @@ (4 :> Node(<<"d">>, "p", None))
PoolEdgesUnroll ==
    (1 :> Edge(1, 2, "NEXT", None)) @@ (2 :> Edge(1, 3, "NEXT", None)) @@
    (3 :> Edge(2, 3, "NEXT", None)) @@ (4 :> Edge(3, 1, "NEXT", None)) @@
    (5 :> Edge(2, 4, "NEXT", None)) @@ (6 :> Edge(4, 2, "NEXT", None)) @@
    (7 :> Edge(1, 4, "PARENT", None))

\* the lists without repetition of at most k elements of S
RECURSIVE ListsOf(_, _)
ListsOf(S, k) ==
    IF k = 0 THEN {<<>>}
    ELSE LET shorter == ListsOf(S, k - 1)
         IN  shorter \cup {Append(l, x) : <<l, x>> \in {p \in shorter \X S : p[2] \notin Range(p[1])}}

UnrollNodeLists == {<<1>>, <<1, 2>>, <<1, 2, 3>>, <<1, 2, 3, 4>>, <<4, 3, 2, 1>>}

\* IntertextDocument(nodes, edges, 'doc') for some nodes and edges of the pool
InitUnroll ==
    /\ \E ns \in UnrollNodeLists : \E es \in ListsOf(DOMAIN PoolEdgesUnroll, MaxUnrollEdges) :
          LET r == IntertextDocument_init([nodes |-> PoolNodesUnroll, edges |-> PoolEdgesUnroll, docs |-> EmptyDict],
                                          TheDoc, ns, es, Prefix, None)
          IN  r.ok /\ world = r.w
    /\ last = [op |-> "init", arg |-> 0, ok |-> TRUE, err |-> ""]
    /\ ret = None
    /\ pc = "idle"
    /\ u_queue = <<>>
    /\ u_breadcrumbs = <<>>
    /\ u_result = <<>>

\* _unroll_graph(node) is entered: result = [], breadcrumbs = [], queue = [node]
UnrollEnter(op, n) ==
    /\ pc' = "while"
    /\ u_queue' = <<n>>
    /\ u_breadcrumbs' = <<>>
    /\ u_result' = <<>>
    /\ last' = [op |-> op, arg |-> n, ok |-> TRUE, err |-> ""]
    /\ ret' = None
    /\ UNCHANGED world

\* unroll_subgraph(node) / _unroll_graph(node)
UnrollSubgraph(n) ==
    /\ Idle
    /\ UnrollEnter("unroll_subgraph", n)

\* unroll_graph(): _unroll_graph(self.root); root may raise, or be None
UnrollGraph ==
    /\ Idle
    /\ LET r == root(world, TheDoc)
       IN  IF ~r.ok
           THEN /\ pc' = "raised"
                /\ last' = [op |-> "unroll_graph", arg |-> NoNode, ok |-> FALSE, err |-> "KeyError"]
                /\ UNCHANGED <<world, ret, u_queue, u_breadcrumbs, u_result>>
           ELSE UnrollEnter("unroll_graph", IF r.node = None THEN NoNode ELSE r.node[1])

\* one pass of the while loop; the loop cannot outrun the edges of the document
UnrollWhile ==
    /\ pc = "while"
    /\ u_queue # <<>>
    /\ Len(u_result) <= MaxUnrollEdges + 1
    /\ LET st == unroll_while(world, [queue |-> u_queue, breadcrumbs |-> u_breadcrumbs, result |-> u_result, ok |-> TRUE])
       IN  /\ u_queue' = st.queue
           /\ u_breadcrumbs' = st.breadcrumbs
           /\ u_result' = st.result
           /\ pc' = IF st.ok THEN "while" ELSE "raised"
           /\ last' = [last EXCEPT !.ok = st.ok, !.err = IF st.ok THEN "" ELSE "AttributeError"]
    /\ UNCHANGED <<world, ret>>

\* the queue is empty: return result
UnrollReturn ==
    /\ pc = "while"
    /\ u_queue = <<>>
    /\ pc' = "done"
    /\ ret' = Some(u_result)
    /\ UNCHANGED <<world, last, u_queue, u_breadcrumbs, u_result>>

NextUnroll ==
    \/ \E n \in DOMAIN world.nodes : UnrollSubgraph(n)
    \/ UnrollGraph
    \/ UnrollWhile
    \/ UnrollReturn

\* a call that has started runs on: nothing else is scheduled
SpecUnroll == InitUnroll /\ [][NextUnroll]_vars /\ WF_vars(UnrollWhile) /\ WF_vars(UnrollReturn)

(* ---------------------------- span content ----------------------------- *)
\* the contents that are assigned: the strings over "a", "b", " " of at most k characters
RECURSIVE Contents(_)
Contents(k) ==
    IF k = 0 THEN {<<>>}
    ELSE Contents(k - 1) \cup {Append(c, x) : <<c, x>> \in Contents(k - 1) \X {"a", "b", " "}}

\* a Node, a SpanNode over it with the given offsets, and a SpanNode over that SpanNode
PoolNodesContent(start, end) ==
    LET plain == (1 :> Node(<<" ", "a", "b", "a", " ">>, "p", None))
        s2 == (2 :> SpanNode(plain, "s", 1, start, end, None, EmptyDict))
        s3 == (3 :> SpanNode(plain @@ s2, "s", 2, 1, None, None, EmptyDict))
    IN  plain @@ s2 @@ s3

InitContent ==
    \E start \in 0..MaxOffset : \E end \in {None} \cup {Some(k) : k \in 0..MaxOffset} :
        InitWith(PoolNodesContent(start, end), EmptyDict)

\* node.content = value
SetContent(n, value) ==
    /\ Idle
    /\ world' = Node_set_content(world, n, value)
    /\ last' = [op |-> "set_content", arg |-> n, ok |-> TRUE, err |-> ""]
    /\ ret' = None
    /\ UnrollUnchanged

\* a read of node.content
GetContent(n) ==
    /\ Idle
    /\ last' = [op |-> "content", arg |-> n, ok |-> TRUE, err |-> ""]
    /\ ret' = Some(Node_content(world.nodes, n))
    /\ UNCHANGED world
    /\ UnrollUnchanged

NextContent ==
    \/ \E n \in DOMAIN world.nodes : \E value \in Contents(MaxLen) : SetContent(n, value)
    \/ \E n \in DOMAIN world.nodes : GetContent(n)

SpecContent == InitContent /\ [][NextContent]_vars

(* ----------------------------- construction ---------------------------- *)
\* the pool objects, no document yet
CtorWorld == [nodes |-> PoolNodesOK, edges |-> PoolEdgesOK, docs |-> EmptyDict]

InitCtor ==
    /\ world = CtorWorld
    /\ last = [op |-> "init", arg |-> <<>>, ok |-> TRUE, err |-> ""]
    /\ ret = None
    /\ pc = "idle"
    /\ u_queue = <<>>
    /\ u_breadcrumbs = <<>>
    /\ u_result = <<>>

\* IntertextDocument(nodes, edges, 'doc')
Construct(ns, es) ==
    /\ Idle
    /\ DOMAIN world.docs = {}
    /\ LET r == IntertextDocument_init(world, TheDoc, ns, es, Prefix, None)
       IN  /\ world' = Collect(r.w)
           /\ last' = [op |-> "IntertextDocument", arg |-> <<ns, es>>, ok |-> r.ok, err |-> r.err]
    /\ ret' = None
    /\ UnrollUnchanged

NextCtor ==
    \E ns \in ListsOf(DOMAIN PoolNodesOK, MaxCtorNodes) : \E es \in ListsOf(DOMAIN PoolEdgesOK, MaxCtorNodes) :
        Construct(ns, es)

SpecCtor == InitCtor /\ [][NextCtor]_vars

(* ------------------------------- queries ------------------------------- *)
\* edges over the four Nodes: NEXT edges (a chain, a fork, paths that meet, a cycle),
\* PARENT edges and a LINK edge
PoolEdgesQuery ==
    (1 :> Edge(1, 2, "NEXT", None)) @@ (2 :> Edge(2, 3, "NEXT", None)) @@
    (3 :> Edge(3, 4, "NEXT", None)) @@ (4 :> Edge(1, 3, "NEXT", None)) @@
    (5 :> Edge(3, 1, "NEXT", None)) @@ (6 :> Edge(1, 2, "PARENT", None)) @@
    (7 :> Edge(1, 3, "PARENT", None)) @@ (8 :> Edge(3, 2, "LINK", None))

\* the registration orders of the nodes
QueryNodeLists ==
    {<<>>, <<1>>, <<1, 2>>, <<2, 1>>,
     <<1, 2, 3>>, <<1, 3, 2>>, <<2, 1, 3>>, <<2, 3, 1>>, <<3, 1, 2>>, <<3, 2, 1>>,
     <<1, 2, 3, 4>>, <<4, 3, 2, 1>>, <<3, 1, 4, 2>>}

\* IntertextDocument(nodes, edges, 'doc') for some nodes and some of the edges E of the pool
InitDocs(E) ==
    /\ \E ns \in QueryNodeLists : \E es \in ListsOf(E, MaxUnrollEdges) :
          LET r == IntertextDocument_init([nodes |-> PoolNodesUnroll, edges |-> PoolEdgesQuery, docs |-> EmptyDict],
                                          TheDoc, ns, es, Prefix, None)
          IN  r.ok /\ world = r.w
    /\ last = [op |-> "init", arg |-> 0, ok |-> TRUE, err |-> ""]
    /\ ret = None
    /\ pc = "idle"
    /\ u_queue = <<>>
    /\ u_breadcrumbs = <<>>
    /\ u_result = <<>>

InitQuery == InitDocs(DOMAIN PoolEdgesQuery)

\* a read of doc.root: ret holds what it returned, None included
ReadRoot ==
    /\ Idle
    /\ LET r == root(world, TheDoc)
       IN  /\ last' = [op |-> "root", arg |-> NoNode, ok |-> r.ok, err |-> IF r.ok THEN "" ELSE "KeyError"]
           /\ ret' = IF r.ok THEN Some(r.node) ELSE None
    /\ UNCHANGED world
    /\ UnrollUnchanged

NextQuery ==
    \/ ReadRoot
    \/ UnrollGraph
    \/ UnrollWhile
    \/ UnrollReturn

SpecQuery == InitQuery /\ [][NextQuery]_vars

\* the documents whose order is asked for: the NEXT edges and a PARENT edge of the pool
InitOrder == InitDocs({1, 2, 3, 4, 5, 6})

\* a < b, a <= b, a > b, a >= b: ret holds the boolean returned
Compare(op, a, b) ==
    /\ Idle
    /\ LET r == CASE op = "lt" -> Node_lt(world, a, b)
                  [] op = "le" -> Node_le(world, a, b)
                  [] op = "gt" -> Node_gt(world, a, b)
                  [] op = "ge" -> Node_ge(world, a, b)
       IN  /\ last' = [op |-> op, arg |-> <<a, b>>, ok |-> r.ok, err |-> r.err]
           /\ ret' = IF r.ok THEN Some(r.val) ELSE None
    /\ UNCHANGED world
    /\ UnrollUnchanged

\* doc.tree_distance(a, b, etype): ret holds the number returned
TreeDistance(a, b, etype) ==
    /\ Idle
    /\ LET r == tree_distance(world, a, b, etype)
       IN  /\ last' = [op |-> "tree_distance", arg |-> <<a, b, etype>>, ok |-> r.ok, err |-> r.err]
           /\ ret' = IF r.ok THEN Some(r.val) ELSE None
    /\ UNCHANGED world
    /\ UnrollUnchanged

\* a comparison or a distance changes nothing: each document is asked once
NextOrder ==
    \/ /\ last.op = "init"
       /\ \E op \in {"lt", "le", "gt", "ge"} : \E a, b \in DOMAIN world.nodes : Compare(op, a, b)
    \/ /\ last.op = "init"
       /\ \E a, b \in DOMAIN world.nodes : \E etype \in {"NEXT", "PARENT"} : TreeDistance(a, b, etype)

SpecOrder == InitOrder /\ [][NextOrder]_vars

\* list(doc.breadcrumbs(n, etype)): ret holds the nodes yielded
Breadcrumbs(n, etype) ==
    /\ Idle
    /\ LET r == breadcrumbs(world, n, etype)
       IN  /\ last' = [op |-> "breadcrumbs", arg |-> <<n, etype>>, ok |-> r.ok, err |-> r.err]
           /\ ret' = IF r.ok THEN Some(r.path) ELSE None
    /\ UNCHANGED world
    /\ UnrollUnchanged

NextCrumbs ==
    \/ /\ last.op = "init"
       /\ \E n \in DOMAIN world.nodes : \E etype \in {"NEXT", "PARENT"} : Breadcrumbs(n, etype)
    \/ /\ last.op = "init"
       /\ \E op \in {"lt", "le", "gt", "ge"} : \E a, b \in DOMAIN world.nodes : Compare(op, a, b)
    \/ /\ last.op = "init"
       /\ \E a, b \in DOMAIN world.nodes : \E etype \in {"NEXT", "PARENT"} : TreeDistance(a, b, etype)

SpecCrumbs == InitOrder /\ [][NextCrumbs]_vars

(* ------------------------------ the counter ---------------------------- *)
\* two Nodes and a SpanNode with ix unset, a Node with a pre-set ix of the automatic form
PoolNodesCounter ==
    LET plain == (1 :> Node(<<"a", "b">>, "p", None)) @@
                 (2 :> Node(<<"c", "d">>, "p", None))
    IN  plain @@
        (3 :> SpanNode(plain, "s", 1, 0, Some(0), None, EmptyDict)) @@
        (4 :> [Node(<<"e">>, "p", None) EXCEPT !.ix = <<"doc", "1">>])
PoolEdgesCounter ==
    (1 :> Edge(1, 2, "NEXT", None)) @@
    (2 :> Edge(2, 4, "PARENT", None))

InitCounter == InitWith(PoolNodesCounter, PoolEdgesCounter)
SpecCounter == InitCounter /\ [][Next]_vars

(* ----------------------------- composition ---------------------------- *)
\* the longest list of edges the first document is built with
MaxSourceEdges == 2

\* the documents composed and the multi-graph
DocA == 1
DocB == 2
MultiDoc == 3

\* three Nodes and a SpanNode for the first document, two Nodes for the second, and
\* for each document two Nodes with indices pre-set by the caller ('a', 'b_a_b'; 'a_b_a', 'b')
PoolNodesMulti ==
    LET plain == (1 :> Node(<<"a">>, "p", None)) @@
                 (2 :> Node(<<"b">>, "p", None)) @@
                 (3 :> Node(<<"c">>, "p", None))
        span == (4 :> SpanNode(plain, "s", 1, 0, None, Some([created_by |-> "splitter"]), EmptyDict))
    IN  plain @@ span @@
        (5 :> Node(<<"x">>, "p", None)) @@
        (6 :> Node(<<"y">>, "p", None)) @@
        (7 :> [Node(<<"a">>, "p", None) EXCEPT !.ix = <<"a">>]) @@
        (8 :> [Node(<<"b">>, "p", None) EXCEPT !.ix = <<"b", "a", "b">>]) @@
        (9 :> [Node(<<"x">>, "p", None) EXCEPT !.ix = <<"a", "b", "a">>]) @@
        (10 :> [Node(<<"y">>, "p", None) EXCEPT !.ix = <<"b">>])
PoolEdgesMulti ==
    (1 :> Edge(1, 2, "NEXT", None)) @@
    (2 :> Edge(2, 3, "NEXT", None)) @@
    (3 :> Edge(1, 3, "PARENT", Some([k |-> "w"]))) @@
    (4 :> Edge(5, 6, "NEXT", None)) @@
    (5 :> Edge(7, 8, "NEXT", None)) @@
    (6 :> Edge(9, 10, "NEXT", None))

\* d = IntertextDocument([], [], prefix, meta), then add_node and add_edge calls that return
Build(w, d, prefix, meta, ns, es) ==
    Then(IntertextDocument_init(w, d, <<>>, <<>>, prefix, meta), LAMBDA w1 :
    Then(add_nodes(w1, d, ns), LAMBDA w2 : add_edges(w2, d, es)))

NodeListsA == {<<1>>, <<1, 2>>, <<2, 1>>, <<1, 2, 3>>, <<1, 4, 2>>, <<7, 8>>}
NodeListsB == {<<5>>, <<5, 6>>, <<6, 5>>, <<9, 10>>}
EdgeListsB == {<<>>, <<4>>, <<6>>}
MetasA == {Some([title |-> "x", lang |-> "en"])}
MetasB == {Some([title |-> "y"])}
PrefixesB == {<<"doc">>, <<"art">>}

InitMulti ==
    /\ \E nsA \in NodeListsA : \E esA \in ListsOf({1, 2, 3, 5}, MaxSourceEdges) :
       \E nsB \in NodeListsB : \E esB \in EdgeListsB :
       \E metaA \in MetasA : \E metaB \in MetasB : \E prefixB \in PrefixesB :
          LET r == Then(Build([nodes |-> PoolNodesMulti, edges |-> PoolEdgesMulti, docs |-> EmptyDict],
                              DocA, Prefix, metaA, nsA, esA),
                        LAMBDA w1 : Build(w1, DocB, prefixB, metaB, nsB, esB))
          IN  r.ok /\ world = r.w
    /\ last = [op |-> "init", arg |-> <<>>, ok |-> TRUE, err |-> ""]
    /\ ret = None
    /\ pc = "idle"
    /\ u_queue = <<>>
    /\ u_breadcrumbs = <<>>
    /\ u_result = <<>>

\* d.add_node(n) on the first document, before the documents are composed
SourceAddNode(d, n) ==
    /\ Idle
    /\ last.op = "init"
    /\ world.docs[d].meta["ix_counter"] < MaxCounter
    /\ LET r == add_node(world, d, n)
       IN  /\ world' = r.w
           /\ last' = [op |-> "add_node", arg |-> <<d, n>>, ok |-> r.ok, err |-> r.err]
    /\ ret' = None
    /\ UnrollUnchanged

Composed == MultiDoc \in DOMAIN world.docs
ComposedOk == last.op = "IntertextMultiGraph" /\ last.ok

\* m = IntertextMultiGraph(*args) / IntertextMultiGraph(*args, meta=meta)
Compose(args, meta) ==
    /\ Idle
    /\ ~Composed
    /\ LET r == IntertextMultiGraph_init(world, MultiDoc, args, meta)
       IN  /\ world' = r.w
           /\ last' = [op |-> "IntertextMultiGraph", arg |-> <<args, meta>>, ok |-> r.ok, err |-> r.err]
    /\ ret' = None
    /\ UnrollUnchanged

\* list(m.roots)
ReadRoots ==
    /\ Idle
    /\ ComposedOk
    /\ LET r == roots(world, MultiDoc)
       IN  /\ last' = [op |-> "roots", arg |-> last.arg, ok |-> r.ok, err |-> r.err]
           /\ ret' = IF r.ok THEN Some(r.val) ELSE None
    /\ UNCHANGED world
    /\ UnrollUnchanged

\* m.root
ReadMultiRoot ==
    /\ Idle
    /\ ComposedOk
    /\ LET r == IntertextMultiGraph_root(world, MultiDoc)
       IN  /\ last' = [op |-> "root", arg |-> last.arg, ok |-> r.ok, err |-> r.err]
           /\ ret' = IF r.ok THEN Some(r.val) ELSE None
    /\ UNCHANGED world
    /\ UnrollUnchanged

\* m.unroll_graph()
MultiUnrollGraph ==
    /\ Idle
    /\ ComposedOk
    /\ LET r == IntertextMultiGraph_unroll_graph(world, MultiDoc)
       IN  /\ last' = [op |-> "unroll_graph", arg |-> last.arg, ok |-> r.ok, err |-> r.err]
           /\ ret' = IF r.ok THEN Some(r.val) ELSE None
    /\ UNCHANGED world
    /\ UnrollUnchanged

\* m.unroll_subgraph(root) for a root that m.roots yields
MultiUnrollSubgraph(n) ==
    /\ ComposedOk
    /\ roots(world, MultiDoc).ok
    /\ InSeq(n, roots(world, MultiDoc).val)
    /\ UnrollSubgraph(n)

ArgLists == {<<>>, <<DocA>>, <<DocA, DocB>>, <<DocB, DocA>>}
MetaArgs == {None, Some(EmptyDict), Some([title |-> "z"]), Some([ix_counter |-> 7])}

NextMulti ==
    \/ \E n \in DOMAIN world.nodes : SourceAddNode(DocA, n)
    \/ \E args \in ArgLists : \E meta \in MetaArgs : Compose(args, meta)
    \/ ReadRoots
    \/ ReadMultiRoot
    \/ MultiUnrollGraph
    \/ \E n \in DOMAIN world.nodes : MultiUnrollSubgraph(n)
    \/ UnrollWhile
    \/ UnrollReturn

SpecMulti == InitMulti /\ [][NextMulti]_vars

(* ------------------------------ isolation ------------------------------ *)
\* a call on document d and its outcome
CallOn(op, d, x, r) ==
    /\ world' = r.w
    /\ last' = [op |-> op, arg |-> <<d, x>>, ok |-> r.ok, err |-> r.err]
    /\ ret' = None
    /\ UnrollUnchanged

\* one call on document d after a multi-graph was composed
LaterAddNode(d, n) == Idle /\ ComposedOk /\ CallOn("add_node", d, n, add_node(world, d, n))
LaterRemoveNode(d, n) == Idle /\ ComposedOk /\ CallOn("remove_node", d, n, remove_node(world, d, n))
LaterAddEdge(d, e) == Idle /\ ComposedOk /\ CallOn("add_edge", d, e, add_edge(world, d, e))
LaterRemoveEdge(d, e) == Idle /\ ComposedOk /\ CallOn("remove_edge", d, e, remove_edge(world, d, e))

\* the nodes and edges of the multi-graph, once it is composed
MultiNodes == IF Composed THEN Range(world.docs[MultiDoc].nodes) ELSE {}
MultiEdges == IF Composed THEN Range(world.docs[MultiDoc].edges) ELSE {}

\* a node is added to the first document, the documents are composed, and one call is
\* made on the first document or on the multi-graph with a node or edge of the multi-graph
NextIsolation ==
    \/ \E n \in DOMAIN world.nodes : SourceAddNode(DocA, n)
    \/ \E args \in {<<DocA>>, <<DocA, DocB>>} : Compose(args, None)
    \/ \E d \in {DocA, MultiDoc} : \E n \in MultiNodes : LaterAddNode(d, n)
    \/ \E d \in {DocA, MultiDoc} : \E n \in MultiNodes : LaterRemoveNode(d, n)
    \/ \E d \in {DocA, MultiDoc} : \E e \in MultiEdges : LaterAddEdge(d, e)
    \/ \E d \in {DocA, MultiDoc} : \E e \in MultiEdges : LaterRemoveEdge(d, e)

SpecIsolation == InitMulti /\ [][NextIsolation]_vars

(* ------------------------- views of a document ------------------------- *)
Registered(w, d) == Range(w.docs[d].nodes)
RegisteredEdges(w, d) == Range(w.docs[d].edges)
ix_counter(w, d) == w.docs[d].meta["ix_counter"]

\* what a reader of the document sees of a node and of an edge, by index
NodeView(w, d) ==
    {[ix |-> w.nodes[n].ix, kind |-> w.nodes[n].kind, ntype |-> w.nodes[n].ntype,
      content |-> Node_content(w.nodes, n), meta |-> w.nodes[n].meta,
      span |-> IF IsSpan(w, n)
               THEN <<w.nodes[w.nodes[n].src_node].ix, w.nodes[n].start, w.nodes[n].end, w.nodes[n].label>>
               ELSE <<>>] : n \in Registered(w, d)}
EdgeView(w, d) ==
    {[src_ix |-> w.nodes[w.edges[e].src_node].ix, tgt_ix |-> w.nodes[w.edges[e].tgt_node].ix,
      etype |-> w.edges[e].etype, meta |-> w.edges[e].meta] : e \in RegisteredEdges(w, d)}
LinkEdges(w, d) == {e \in RegisteredEdges(w, d) : w.edges[e].etype = "LINK"}

SpanSourcesRegistered(w, d) ==
    \A n \in Registered(w, d) : IsSpan(w, n) => w.nodes[n].src_node \in Registered(w, d)

(* -------------------------------- C1 ----------------------------------- *)
\* C1: loading the saved form of a document reached by calls that all returned, in
\* which every span node's source is registered, succeeds and gives a document with
\* the same nodes by index (type, content, meta, span source, offsets and label, span
\* content) and the same edges (source, target, type, meta), no LINK edge more or less.
RoundTripStructure ==
    (last.op = "load_json" /\ SpanSourcesRegistered(world, TheDoc)) =>
        /\ last.ok
        /\ NodeView(ret[1], LoadedDoc) = NodeView(world, TheDoc)
        /\ EdgeView(ret[1], LoadedDoc) = EdgeView(world, TheDoc)
        /\ Len(ret[1].docs[LoadedDoc].edges) = Len(world.docs[TheDoc].edges)
        /\ Cardinality(LinkEdges(ret[1], LoadedDoc)) = Cardinality(LinkEdges(world, TheDoc))

(* -------------------------------- C2 ----------------------------------- *)
\* C2: the document loaded from the saved form of a document with at least one node
\* has the ix_counter of the saved document.
RoundTripCounter ==
    (last.op = "load_json" /\ last.ok /\ Len(world.docs[TheDoc].nodes) >= 1) =>
        ix_counter(ret[1], LoadedDoc) = ix_counter(world, TheDoc)

(* -------------------------------- C3 ----------------------------------- *)
\* the index a node carries once add_node has looked at it
IxAfterAdd(w, d, n) ==
    IF w.nodes[n].ix = NoIx THEN w.docs[d].prefix \o <<ToString(ix_counter(w, d) + 1)>> ELSE w.nodes[n].ix
RegisteredIx(w, d) == {w.nodes[n].ix : n \in Registered(w, d)}
\* the indices a caller may ask for
SomeIx(w, d) ==
    {w.nodes[n].ix : n \in DOMAIN w.nodes} \cup DOMAIN w.docs[d].node_ix_to_uuid
    \cup {w.docs[d].prefix \o <<ToString(k)>> : k \in 0..(MaxCounter + 1)}

\* C3: after any calls, returning or raising, no two registered nodes have the same
\* ix, the index map has exactly one entry per registered node, from its ix to it, and
\* get_node_by_ix finds every registered node and fails for every other index.
NodeIndexUnique ==
    LET D == world.docs[TheDoc]
    IN  /\ \A n, m \in Registered(world, TheDoc) : n # m => world.nodes[n].ix # world.nodes[m].ix
        /\ Cardinality(Registered(world, TheDoc)) = Len(D.nodes)
        /\ DOMAIN D.node_ix_to_uuid = RegisteredIx(world, TheDoc)
        /\ Cardinality(DOMAIN D.node_ix_to_uuid) = Len(D.nodes)
        /\ \A n \in Registered(world, TheDoc) :
              /\ D.node_ix_to_uuid[world.nodes[n].ix] = n
              /\ get_node_by_ix(world, TheDoc, world.nodes[n].ix) = Some(n)
        /\ \A ix \in SomeIx(world, TheDoc) \ RegisteredIx(world, TheDoc) :
              get_node_by_ix(world, TheDoc, ix) = None

\* an add_node has raised on a document that holds two nodes
NodeIndexUniqueWitness ==
    /\ last.op = "add_node" /\ ~last.ok /\ last.err = "AssertionError"
    /\ Cardinality(Registered(world, TheDoc)) >= 2

(* -------------------------------- C6 ----------------------------------- *)
\* node n comes with an index that a registered node has
PresetIxRegistered(w, d, n) == w.nodes[n].ix # NoIx /\ w.nodes[n].ix \in RegisteredIx(w, d)

\* C6: add_node of a node whose pre-set ix is the index of a registered node raises,
\* leaves the node table, the node index map, the edge table and the edge index map
\* as they were and ix_counter one larger.
DuplicateNodeIndexFails ==
    [][(last'.op = "add_node" /\ PresetIxRegistered(world, TheDoc, last'.arg)) =>
          /\ ~last'.ok
          /\ world'.docs[TheDoc].nodes = world.docs[TheDoc].nodes
          /\ NodeView(world', TheDoc) = NodeView(world, TheDoc)
          /\ world'.docs[TheDoc].node_ix_to_uuid = world.docs[TheDoc].node_ix_to_uuid
          /\ world'.docs[TheDoc].edges = world.docs[TheDoc].edges
          /\ \A e \in RegisteredEdges(world, TheDoc) : world'.edges[e] = world.edges[e]
          /\ world'.docs[TheDoc].edge_ix_to_uuid = world.docs[TheDoc].edge_ix_to_uuid
          /\ ix_counter(world', TheDoc) = ix_counter(world, TheDoc) + 1]_vars

\* add_node has raised for a node whose index another, registered node holds
DuplicateNodeIndexWitness ==
    /\ last.op = "add_node" /\ ~last.ok
    /\ PoolNodes[last.arg].ix # NoIx
    /\ last.arg \notin Registered(world, TheDoc)
    /\ \E m \in Registered(world, TheDoc) : world.nodes[m].ix = world.nodes[last.arg].ix

(* -------------------------------- C7 ----------------------------------- *)
\* the registered edges that have node n as source or target
IncidentEdges(w, d, n) ==
    {e \in RegisteredEdges(w, d) : w.edges[e].src_node = n \/ w.edges[e].tgt_node = n}
Without(s, X) == SelectSeq(s, LAMBDA x : x \notin X)

\* remove_node(n) took node n and exactly its incident edges out of world w, giving v
RemovedExactly(w, v, d, n) ==
    LET gone == IncidentEdges(w, d, n)
    IN  /\ v.docs[d].nodes = Without(w.docs[d].nodes, {n})
        /\ v.docs[d].node_ix_to_uuid = DictDel(w.docs[d].node_ix_to_uuid, w.nodes[n].ix)
        /\ v.docs[d].edges = Without(w.docs[d].edges, gone)
        /\ v.docs[d].edge_ix_to_uuid =
              [x \in {y \in DOMAIN w.docs[d].edge_ix_to_uuid : w.docs[d].edge_ix_to_uuid[y] \notin gone}
                  |-> w.docs[d].edge_ix_to_uuid[x]]
        /\ \A e \in RegisteredEdges(w, d) \ gone : v.edges[e] = w.edges[e]
        /\ \A m \in DOMAIN w.nodes \ {n} :
              v.nodes[m] = [w.nodes[m] EXCEPT !.incoming = Without(@, gone), !.outgoing = Without(@, gone)]
        /\ v.docs[d].meta = w.docs[d].meta

\* C7: remove_node of a registered node returns, takes the node and exactly its
\* incident edges out of the tables, the index maps and the other endpoints' lists,
\* leaves everything else and ix_counter alone; removing it again raises and changes nothing.
RemoveNodeFrame ==
    [][(last'.op = "remove_node" /\ last'.arg \in Registered(world, TheDoc)) =>
          /\ last'.ok
          /\ RemovedExactly(world, world', TheDoc, last'.arg)
          /\ ~remove_node(world', TheDoc, last'.arg).ok
          /\ remove_node(world', TheDoc, last'.arg).w = world']_vars

(* -------------------------------- C9 ----------------------------------- *)
\* the meta of the LINK edge of span node n
LinkMeta(w, n) ==
    IF w.nodes[n].meta # None /\ "created_by" \in DOMAIN w.nodes[n].meta[1]
    THEN Some([created_by |-> w.nodes[n].meta[1]["created_by"]]) ELSE None

\* add_node(n) is called for a span node with a free index whose source is registered
SpanAddCase(w, d, n) ==
    /\ IsSpan(w, n)
    /\ w.nodes[n].src_node \in Registered(w, d)
    /\ IxAfterAdd(w, d, n) \notin RegisteredIx(w, d)

\* C9: in normal mode add_node of a span node whose source is registered adds exactly
\* one edge, LINK from the source to the span node, with the span's created_by as its
\* meta; loading a document (reconstruction mode) adds no edge beyond the saved ones
\* and leaves the loaded document in normal mode.
ImplicitLinkEdge ==
    [][/\ (last'.op = "add_node" /\ ~world.docs[TheDoc].init_from_existing_doc
            /\ SpanAddCase(world, TheDoc, last'.arg)) =>
              /\ Len(world'.docs[TheDoc].edges) = Len(world.docs[TheDoc].edges) + 1
              /\ \E e \in RegisteredEdges(world', TheDoc) \ RegisteredEdges(world, TheDoc) :
                    /\ world'.edges[e].etype = "LINK"
                    /\ world'.edges[e].src_node = world.nodes[last'.arg].src_node
                    /\ world'.edges[e].tgt_node = last'.arg
                    /\ world'.edges[e].meta = LinkMeta(world, last'.arg)
                    /\ RegisteredEdges(world', TheDoc) = RegisteredEdges(world, TheDoc) \cup {e}
       /\ round_trip(world', TheDoc).ok =>
              /\ Len(round_trip(world', TheDoc).w.docs[LoadedDoc].edges) = Len(world'.docs[TheDoc].edges)
              /\ ~round_trip(world', TheDoc).w.docs[LoadedDoc].init_from_existing_doc
              /\ ~world'.docs[TheDoc].init_from_existing_doc]_vars

(* -------------------------------- C4 ----------------------------------- *)
NextEdges(w, d) == {e \in RegisteredEdges(w, d) : w.edges[e].etype = "NEXT"}
Count(s, x) == Cardinality({i \in DOMAIN s : s[i] = x})

\* while _unroll_graph runs: no edge index is followed twice, and what is returned and
\* what is still queued is the start node and one node per followed edge
UnrollBounded ==
    (pc \in {"while", "done"}) =>
        /\ \A i, j \in DOMAIN u_breadcrumbs : u_breadcrumbs[i] = u_breadcrumbs[j] => i = j
        /\ Range(u_breadcrumbs) \subseteq {Edge_ix(world, e) : e \in NextEdges(world, TheDoc)}
        /\ Len(u_result) + Len(u_queue) = 1 + Len(u_breadcrumbs)
        /\ Len(u_result) <= 1 + Cardinality(NextEdges(world, TheDoc))

\* C4: _unroll_graph(start) ends for every document and start node, with NEXT cycles,
\* paths that meet again and forks; it follows every NEXT edge at most once and
\* returns at most 1 + (number of NEXT edges) nodes.
UnrollTerminates ==
    /\ []UnrollBounded
    /\ (pc = "while") ~> (pc \in {"done", "raised"})

\* an unroll has returned a list in which a node comes twice
UnrollTerminatesWitness ==
    /\ pc = "done"
    /\ \E i, j \in DOMAIN ret[1] : i # j /\ ret[1][i] = ret[1][j]
    /\ Len(ret[1]) = 1 + Cardinality(NextEdges(world, TheDoc))

(* -------------------------------- C5 ----------------------------------- *)
NextSucc(w, d, v) == {w.edges[e].tgt_node : e \in {x \in NextEdges(w, d) : w.edges[x].src_node = v}}
RECURSIVE ReachableFrom(_, _, _)
ReachableFrom(w, d, S) ==
    LET T == S \cup UNION {NextSucc(w, d, v) : v \in S}
    IN  IF T = S THEN S ELSE ReachableFrom(w, d, T)
\* the number of NEXT edges on a shortest path to v from the nodes of S, which are k edges from the start
RECURSIVE DistFrom(_, _, _, _, _)
DistFrom(w, d, S, k, v) ==
    IF v \in S THEN k ELSE DistFrom(w, d, S \cup UNION {NextSucc(w, d, u) : u \in S}, k + 1, v)
FirstAt(s, x) == ListIndex(s, x)

\* the NEXT edges are exactly the steps of the list p of distinct nodes
IsNextPath(w, d, p) ==
    /\ Len(p) >= 2
    /\ Cardinality(NextEdges(w, d)) = Len(p) - 1
    /\ \A i \in 1..(Len(p) - 1) :
          \E e \in NextEdges(w, d) : w.edges[e].src_node = p[i] /\ w.edges[e].tgt_node = p[i + 1]

\* C5: unroll_graph() returns the root first, every node reachable from the root once
\* per incoming NEXT edge from a reachable node (the root once more, as the start), no
\* other node, a nearer node first appearing before a farther one, each entry after
\* the first reached by a NEXT edge from an earlier entry; on a single simple NEXT
\* path it returns the path.
UnrollResult ==
    (pc = "done" /\ last.op = "unroll_graph") =>
        LET res == ret[1]
            r == res[1]
            reach == ReachableFrom(world, TheDoc, {r})
        IN  /\ root(world, TheDoc).node = Some(r)
            /\ \/ Len(world.docs[TheDoc].nodes) = 1
               \/ /\ \A e \in NextEdges(world, TheDoc) : world.edges[e].tgt_node # r
                  /\ \E e \in NextEdges(world, TheDoc) : world.edges[e].src_node = r
            /\ Range(res) = reach
            /\ \A v \in reach :
                  Count(res, v) = (IF v = r THEN 1 ELSE 0)
                      + Cardinality({e \in NextEdges(world, TheDoc) :
                                        world.edges[e].tgt_node = v /\ world.edges[e].src_node \in reach})
            /\ \A u, v \in reach :
                  DistFrom(world, TheDoc, {r}, 0, u) < DistFrom(world, TheDoc, {r}, 0, v)
                      => FirstAt(res, u) < FirstAt(res, v)
            /\ \A i \in 2..Len(res) : \E j \in 1..(i - 1) : res[i] \in NextSucc(world, TheDoc, res[j])
            /\ \A p \in ListsOf(Registered(world, TheDoc), Cardinality(Registered(world, TheDoc))) :
                  (IsNextPath(world, TheDoc, p) /\ p[1] = r) => res = p

\* unroll_graph() has returned for a document in which two NEXT paths from the root meet again
UnrollResultWitness ==
    /\ pc = "done" /\ last.op = "unroll_graph"
    /\ Len(ret[1]) >= 4
    /\ \E i, j \in DOMAIN ret[1] : i # j /\ ret[1][i] = ret[1][j]

(* -------------------------------- C8 ----------------------------------- *)
\* the characters of content c at the positions start..end, counted from 0, that c has
CharsAt(c, start, end) ==
    LET hi == Min(end, Len(c) - 1)
    IN  IF hi < start THEN <<>> ELSE [k \in 1..(hi - start + 1) |-> c[start + k]]

\* C8: every read of a span node's content gives the characters of its source node's
\* current content at the positions start..end inclusive, so a replaced source content
\* shows at the next read; assigning to a span node's content changes nothing.
SpanContent ==
    [][/\ (last'.op = "content" /\ IsSpan(world', last'.arg)) =>
              ret'[1] = CharsAt(Node_content(world'.nodes, world'.nodes[last'.arg].src_node),
                                world'.nodes[last'.arg].start, world'.nodes[last'.arg].end)
       /\ (last'.op = "set_content" /\ IsSpan(world, last'.arg)) => world' = world
       /\ (last'.op = "set_content" /\ IsPlain(world, last'.arg)) =>
              \A n \in DOMAIN world.nodes :
                  (IsSpan(world, n) /\ world.nodes[n].src_node = last'.arg) =>
                      Node_content(world'.nodes, n)
                          = CharsAt(world'.nodes[last'.arg].content, world.nodes[n].start, world.nodes[n].end)]_vars

\* a span node with end > start is read after its source's content was replaced, and is not empty
SpanContentWitness ==
    /\ last.op = "content" /\ IsSpan(world, last.arg)
    /\ world.nodes[last.arg].end > world.nodes[last.arg].start
    /\ world.nodes[1].content # PoolNodesContent(0, None)[1].content
    /\ Len(ret[1]) >= 2

(* -------------------------------- C10 ---------------------------------- *)
\* an empty document, then add_node for each node and add_edge for each edge
Incremental(w, d, ns, es) ==
    LET r0 == IntertextDocument_init(w, d, <<>>, <<>>, Prefix, None)
        r1 == add_nodes(r0.w, d, ns)
    IN  IF ~r1.ok THEN r1 ELSE add_edges(r1.w, d, es)

\* every span node of the list comes after its source node
SpansAfterSources(w, ns) ==
    \A i \in DOMAIN ns : IsSpan(w, ns[i]) => \E j \in 1..(i - 1) : ns[j] = w.nodes[ns[i]].src_node

\* C10: for nodes and edges that can be added one by one (each span node after its
\* source), IntertextDocument(nodes, edges, prefix) returns and leaves the state that
\* the add_node and add_edge calls on an empty document leave.
ConstructorEqualsIncremental ==
    (/\ last.op = "IntertextDocument"
     /\ SpansAfterSources(CtorWorld, last.arg[1])
     /\ Incremental(CtorWorld, TheDoc, last.arg[1], last.arg[2]).ok) =>
        /\ last.ok
        /\ world = Collect(Incremental(CtorWorld, TheDoc, last.arg[1], last.arg[2]).w)

(* -------------------------------- C11 ---------------------------------- *)
\* the registered nodes with no incoming NEXT edge and at least one outgoing NEXT edge,
\* read from the edge table
RootCandidates(w, d) ==
    {n \in Registered(w, d) :
        /\ ~\E e \in NextEdges(w, d) : w.edges[e].tgt_node = n
        /\ \E e \in NextEdges(w, d) : w.edges[e].src_node = n}

\* C11: on a document with no node, or with more than one node of which none or more
\* than one has no incoming NEXT edge and an outgoing NEXT edge, reading root raises.
RootFailsWithoutUniqueRoot ==
    (/\ last.op = "root"
     /\ \/ Len(world.docs[TheDoc].nodes) = 0
        \/ Len(world.docs[TheDoc].nodes) > 1 /\ Cardinality(RootCandidates(world, TheDoc)) # 1) =>
        ~last.ok

(* -------------------------------- C12 ---------------------------------- *)
\* C12: when exactly one registered node has no incoming NEXT edge and an outgoing NEXT
\* edge, root returns that node, whatever the registration order and the PARENT and LINK
\* edges; a document of one node returns that node; nodes [A, B, C] with A-PARENT->B,
\* A-PARENT->C and B-NEXT->C unroll to [B, C].
RootWellFormed ==
    /\ (last.op = "root" /\ Cardinality(RootCandidates(world, TheDoc)) = 1) =>
          /\ last.ok
          /\ ret[1] # None
          /\ RootCandidates(world, TheDoc) = {ret[1][1]}
    /\ (last.op = "root" /\ Len(world.docs[TheDoc].nodes) = 1) =>
          last.ok /\ ret = Some(Some(world.docs[TheDoc].nodes[1]))
    /\ (/\ pc = "done" /\ last.op = "unroll_graph"
        /\ Registered(world, TheDoc) = {1, 2, 3}
        /\ RegisteredEdges(world, TheDoc) = {2, 6, 7}) =>
          ret = Some(<<2, 3>>)

\* root was read on the document of nodes [A, B, C] with A-PARENT->B, A-PARENT->C, B-NEXT->C
RootWellFormedWitness ==
    /\ last.op = "root" /\ last.ok
    /\ world.docs[TheDoc].nodes = <<1, 2, 3>>
    /\ RegisteredEdges(world, TheDoc) = {2, 6, 7}
    /\ ret = Some(Some(2))

(* -------------------------------- C13 ---------------------------------- *)
\* the orders of all registered nodes in which the NEXT edges are exactly the steps
ChainsOf(w, d) ==
    {p \in ListsOf(Registered(w, d), Cardinality(Registered(w, d))) :
        Len(p) = Cardinality(Registered(w, d)) /\ IsNextPath(w, d, p)}

\* the place of node n on the list p
PlaceOn(p, n) == CHOOSE i \in DOMAIN p : p[i] = n

\* C13: when the NEXT edges form a single simple path through all nodes, whatever the
\* registration order, a < b returns whether a comes strictly before b on the path,
\* a > b whether b comes strictly before a, a <= b whether a < b or a is b, and a >= b
\* whether a > b or a is b.
ChainOrder ==
    \A p \in ChainsOf(world, TheDoc) :
        (last.op \in {"lt", "le", "gt", "ge"} /\ last.arg[1] \in Range(p) /\ last.arg[2] \in Range(p)) =>
            LET a == PlaceOn(p, last.arg[1])
                b == PlaceOn(p, last.arg[2])
            IN  /\ last.ok
                /\ ret[1] = CASE last.op = "lt" -> a < b
                              [] last.op = "le" -> a <= b
                              [] last.op = "gt" -> a > b
                              [] last.op = "ge" -> a >= b

\* a < b returned TRUE on a chain for a node a registered after b
ChainOrderWitness ==
    /\ ChainsOf(world, TheDoc) # {}
    /\ last.op = "lt" /\ last.ok /\ ret = Some(TRUE)
    /\ ListIndex(world.docs[TheDoc].nodes, last.arg[1]) > ListIndex(world.docs[TheDoc].nodes, last.arg[2])

(* -------------------------------- C14 ---------------------------------- *)
\* the nodes from which n is reached along NEXT edges, n included
RECURSIVE NextAncestors(_, _, _)
NextAncestors(w, d, S) ==
    LET T == S \cup {w.edges[e].src_node : e \in {x \in NextEdges(w, d) : w.edges[x].tgt_node \in S}}
    IN  IF T = S THEN S ELSE NextAncestors(w, d, T)

\* C14: for two distinct registered nodes of which neither is reached from the other by
\* following NEXT edges backward, a < b raises; it raises as well when b is not
\* registered in a's document.
IncomparableFails ==
    (/\ last.op = "lt"
     /\ last.arg[1] \in Registered(world, TheDoc)
     /\ \/ last.arg[2] \notin Registered(world, TheDoc)
        \/ /\ last.arg[1] # last.arg[2]
           /\ last.arg[1] \notin NextAncestors(world, TheDoc, {last.arg[2]})
           /\ last.arg[2] \notin NextAncestors(world, TheDoc, {last.arg[1]})) =>
        ~last.ok

(* -------------------------------- C15 ---------------------------------- *)
EtypeEdges(w, d, etype) == {e \in RegisteredEdges(w, d) : w.edges[e].etype = etype}

\* the nodes from which a node of S is reached along etype edges, S included
RECURSIVE Ancestors(_, _, _, _)
Ancestors(w, d, etype, S) ==
    LET T == S \cup {w.edges[e].src_node : e \in {x \in EtypeEdges(w, d, etype) : w.edges[x].tgt_node \in S}}
    IN  IF T = S THEN S ELSE Ancestors(w, d, etype, T)

\* every node has at most one incoming etype edge, and no etype edge closes a cycle
IsForest(w, d, etype) ==
    /\ \A e, f \in EtypeEdges(w, d, etype) : w.edges[e].tgt_node = w.edges[f].tgt_node => e = f
    /\ \A e \in EtypeEdges(w, d, etype) : w.edges[e].tgt_node \notin Ancestors(w, d, etype, {w.edges[e].src_node})

\* the number of etype edges from the root of its tree down to n
Depth(w, d, etype, n) == Cardinality(Ancestors(w, d, etype, {n})) - 1

\* the number of etype edges on the path a -> lowest common ancestor -> b
PathLength(w, d, etype, a, b) ==
    LET common == Ancestors(w, d, etype, {a}) \cap Ancestors(w, d, etype, {b})
        lca == CHOOSE c \in common : \A x \in common : Depth(w, d, etype, x) <= Depth(w, d, etype, c)
    IN  (Depth(w, d, etype, a) - Depth(w, d, etype, lca)) + (Depth(w, d, etype, b) - Depth(w, d, etype, lca))

\* C15: when the etype edges form a forest, tree_distance(n1, n2, etype) of two nodes of
\* one tree returns the number of etype edges on the path n1 -> lowest common ancestor
\* -> n2: 0 for n1 = n2, 2 for two siblings, the depth difference for an ancestor and its
\* descendant, the same number for (n2, n1).
TreeDistancePath ==
    (/\ last.op = "tree_distance"
     /\ last.arg[1] \in Registered(world, TheDoc) /\ last.arg[2] \in Registered(world, TheDoc)
     /\ IsForest(world, TheDoc, last.arg[3])
     /\ Ancestors(world, TheDoc, last.arg[3], {last.arg[1]}) \cap Ancestors(world, TheDoc, last.arg[3], {last.arg[2]}) # {}) =>
        LET a == last.arg[1]
            b == last.arg[2]
            etype == last.arg[3]
            parent(n) == {world.edges[e].src_node : e \in {x \in EtypeEdges(world, TheDoc, etype) : world.edges[x].tgt_node = n}}
        IN  /\ last.ok
            /\ ret[1] = PathLength(world, TheDoc, etype, a, b)
            /\ ret[1] = tree_distance(world, b, a, etype).val
            /\ a = b => ret[1] = 0
            /\ (a # b /\ parent(a) # {} /\ parent(a) = parent(b)) => ret[1] = 2
            /\ a \in Ancestors(world, TheDoc, etype, {b}) =>
                   ret[1] = Depth(world, TheDoc, etype, b) - Depth(world, TheDoc, etype, a)

\* a distance of 3 was returned: a node and a child of its sibling
TreeDistancePathWitness ==
    /\ last.op = "tree_distance" /\ last.ok
    /\ IsForest(world, TheDoc, last.arg[3])
    /\ Ancestors(world, TheDoc, last.arg[3], {last.arg[1]}) \cap Ancestors(world, TheDoc, last.arg[3], {last.arg[2]}) # {}
    /\ ret = Some(3)

(* -------------------------------- C16 ---------------------------------- *)
\* the derived index of the edge from node a to node b of type etype
DerivedIx(w, a, b, etype) == w.nodes[a].ix \o w.nodes[b].ix \o <<Etype_str(etype)>>

\* the endpoints of edge e are registered nodes
EndpointsRegistered(w, d, e) ==
    w.edges[e].src_node \in Registered(w, d) /\ w.edges[e].tgt_node \in Registered(w, d)

\* edge e joins registered nodes and a registered edge has its derived index
DuplicateEdgeCase(w, d, e) ==
    /\ EndpointsRegistered(w, d, e)
    /\ \E f \in RegisteredEdges(w, d) :
          /\ EndpointsRegistered(w, d, f)
          /\ DerivedIx(w, w.edges[f].src_node, w.edges[f].tgt_node, w.edges[f].etype)
               = DerivedIx(w, w.edges[e].src_node, w.edges[e].tgt_node, w.edges[e].etype)

\* add_edge of an edge whose derived index is registered raises and leaves the edge
\* table, the edge index map and the lists of both endpoints as they were
DuplicateEdgeRaises ==
    [][(last'.op = "add_edge" /\ DuplicateEdgeCase(world, TheDoc, last'.arg)) =>
          /\ ~last'.ok
          /\ world'.docs[TheDoc].edges = world.docs[TheDoc].edges
          /\ world'.docs[TheDoc].edge_ix_to_uuid = world.docs[TheDoc].edge_ix_to_uuid
          /\ \A n \in {world.edges[last'.arg].src_node, world.edges[last'.arg].tgt_node} :
                /\ world'.nodes[n].incoming = world.nodes[n].incoming
                /\ world'.nodes[n].outgoing = world.nodes[n].outgoing]_vars

\* no two registered edges have the same derived index, and get_edge_by_ix(e.ix)
\* returns e for every registered edge e
EdgeIndexUnique ==
    /\ \A e \in RegisteredEdges(world, TheDoc) :
          /\ EndpointsRegistered(world, TheDoc, e)
          /\ get_edge_by_ix(world, TheDoc, DerivedIx(world, world.edges[e].src_node, world.edges[e].tgt_node, world.edges[e].etype)) = Some(e)
    /\ \A e, f \in RegisteredEdges(world, TheDoc) :
          (e # f /\ EndpointsRegistered(world, TheDoc, e) /\ EndpointsRegistered(world, TheDoc, f)) =>
              DerivedIx(world, world.edges[e].src_node, world.edges[e].tgt_node, world.edges[e].etype)
                # DerivedIx(world, world.edges[f].src_node, world.edges[f].tgt_node, world.edges[f].etype)

\* C16: add_edge of an edge whose derived index {src.ix}_{tgt.ix}_{etype} is registered
\* raises and changes neither the edge table, the edge index map nor the lists of the
\* endpoints; so in every state no two registered edges have the same derived index and
\* get_edge_by_ix(e.ix) returns e for every registered edge e.
DuplicateEdgeFails == DuplicateEdgeRaises /\ []EdgeIndexUnique

(* -------------------------------- C17 ---------------------------------- *)
\* the nodes and the edges of the documents args, in argument order
RECURSIVE SourceNodes(_, _)
SourceNodes(w, args) ==
    IF args = <<>> THEN <<>> ELSE w.docs[Head(args)].nodes \o SourceNodes(w, Tail(args))
RECURSIVE SourceEdges(_, _)
SourceEdges(w, args) ==
    IF args = <<>> THEN <<>> ELSE w.docs[Head(args)].edges \o SourceEdges(w, Tail(args))

NodeIxs(w, d) == {w.nodes[n].ix : n \in Registered(w, d)}
DisjointNodeIxs(w, args) ==
    \A i, j \in DOMAIN args : i < j => NodeIxs(w, args[i]) \cap NodeIxs(w, args[j]) = {}

\* what an edge is to a reader: source index, target index, type, meta
EdgeFacts(w, e) ==
    [src_ix |-> w.nodes[w.edges[e].src_node].ix, tgt_ix |-> w.nodes[w.edges[e].tgt_node].ix,
     etype |-> w.edges[e].etype, meta |-> w.edges[e].meta]

\* the lists of every registered node hold exactly its registered edges, each once
ListsHoldEdges(w, d) ==
    \A n \in Registered(w, d) :
        /\ Range(w.nodes[n].outgoing) = {e \in RegisteredEdges(w, d) : w.edges[e].src_node = n}
        /\ Range(w.nodes[n].incoming) = {e \in RegisteredEdges(w, d) : w.edges[e].tgt_node = n}
        /\ Cardinality(Range(w.nodes[n].outgoing)) = Len(w.nodes[n].outgoing)
        /\ Cardinality(Range(w.nodes[n].incoming)) = Len(w.nodes[n].incoming)

\* the multi-graph holds the nodes and edges of the documents args of world w, as world v has it
ComposedOf(w, v, args) ==
    /\ v.docs[MultiDoc].nodes = SourceNodes(w, args)
    /\ \A n \in Range(SourceNodes(w, args)) : v.nodes[n].ix = w.nodes[n].ix
    /\ Len(v.docs[MultiDoc].edges) = Len(SourceEdges(w, args))
    /\ \A i \in DOMAIN v.docs[MultiDoc].edges :
          EdgeFacts(v, v.docs[MultiDoc].edges[i]) = EdgeFacts(w, SourceEdges(w, args)[i])
    /\ ListsHoldEdges(v, MultiDoc)

\* C17: IntertextMultiGraph(d1, .., dn) of documents whose node indices are pairwise
\* disjoint returns a multi-graph with the nodes of d1..dn in document order under their
\* indices, with exactly the edges of d1..dn (source index, target index, type, meta; no
\* LINK edge more) and with every node's lists holding exactly its edges; of documents
\* that share a node index it raises.
MultiComposition ==
    [][(last'.op = "IntertextMultiGraph" /\ last'.arg[2] = None) =>
          IF DisjointNodeIxs(world, last'.arg[1])
          THEN last'.ok /\ ComposedOf(world, world', last'.arg[1])
          ELSE ~last'.ok]_vars

(* -------------------------------- C18 ---------------------------------- *)
\* d.root returns a node, the only node of d or the only one with no incoming and
\* some outgoing NEXT edge
HasUniqueRoot(w, d) ==
    /\ root(w, d).ok
    /\ root(w, d).node # None
    /\ \/ Len(w.docs[d].nodes) = 1
       \/ roots_scan(w, w.docs[d].nodes) = Returns(<<root(w, d).node[1]>>)
RootOf(w, d) == root(w, d).node[1]

\* roots and unroll_subgraph of the multi-graph just composed from documents that each
\* have a unique root
RootsOfSources ==
    [][(/\ last'.op = "IntertextMultiGraph"
        /\ last'.ok
        /\ \A i \in DOMAIN last'.arg[1] :
              HasUniqueRoot(world, last'.arg[1][i]) /\ unroll_graph(world, last'.arg[1][i]).ok) =>
          /\ roots(world', MultiDoc) = Returns([i \in DOMAIN last'.arg[1] |-> RootOf(world, last'.arg[1][i])])
          /\ \A i \in DOMAIN last'.arg[1] :
                unroll_graph_from(world', RootOf(world, last'.arg[1][i])) = unroll_graph(world, last'.arg[1][i])]_vars

\* root and unroll_graph() of a multi-graph raise
MultiRootRaises == last.op \in {"root", "unroll_graph"} => ~last.ok

\* C18: for a multi-graph composed from documents that each have a unique root, roots
\* yields the roots of the documents, each once, in document order, and
\* unroll_subgraph(root of di) returns the node sequence di.unroll_graph() returned
\* before the composition; root and unroll_graph() of a multi-graph raise.
MultiRoots == RootsOfSources /\ []MultiRootRaises

(* -------------------------------- C19 ---------------------------------- *)
\* the documents args have nodes, pairwise disjoint node indices and pairwise distinct
\* derived edge indices
Composable(w, args) ==
    /\ \A i \in DOMAIN args : w.docs[args[i]].nodes # <<>>
    /\ DisjointNodeIxs(w, args)
    /\ \A i, j \in DOMAIN SourceEdges(w, args) :
          i < j => Edge_ix(w, SourceEdges(w, args)[i]) # Edge_ix(w, SourceEdges(w, args)[j])

MetaKeys(f) == DOMAIN f \ {"ix_counter"}
\* the value of key k in the last of the documents args that defines it
LastValue(w, args, k) ==
    LET i == CHOOSE i \in DOMAIN args :
                 /\ k \in DOMAIN w.docs[args[i]].meta
                 /\ \A j \in DOMAIN args : k \in DOMAIN w.docs[args[j]].meta => j <= i
    IN  w.docs[args[i]].meta[k]

\* C19: composing documents, each with at least one node, without the meta keyword
\* returns and gives every key but ix_counter the value of the last document that
\* defines it; composing them with an explicit meta mapping returns for every mapping,
\* with or without ix_counter, and the multi-graph has the keys and values of that mapping.
MultiMeta ==
    [][(last'.op = "IntertextMultiGraph" /\ last'.arg[1] # <<>> /\ Composable(world, last'.arg[1])) =>
          /\ last'.ok
          /\ IF last'.arg[2] = None
             THEN /\ MetaKeys(world'.docs[MultiDoc].meta)
                       = UNION {MetaKeys(world.docs[last'.arg[1][i]].meta) : i \in DOMAIN last'.arg[1]}
                  /\ \A k \in MetaKeys(world'.docs[MultiDoc].meta) :
                        world'.docs[MultiDoc].meta[k] = LastValue(world, last'.arg[1], k)
             ELSE /\ MetaKeys(world'.docs[MultiDoc].meta) = MetaKeys(last'.arg[2][1])
                  /\ \A k \in MetaKeys(last'.arg[2][1]) :
                        world'.docs[MultiDoc].meta[k] = last'.arg[2][1][k]]_vars

(* -------------------------------- C20 ---------------------------------- *)
\* the node objects the caller made without an index
AutoNodes == {n \in DOMAIN PoolNodesCounter : PoolNodesCounter[n].ix = NoIx}

\* C20: every add_node call, returning or raising, for a node with or without an index,
\* grows ix_counter by exactly one; add_edge, remove_node and remove_edge leave it as it
\* is; and an index that add_node assigns is {prefix}_{the new counter}, an index that no
\* node has been assigned automatically before, removed since or not.
CounterMonotone ==
    [][/\ last'.op = "add_node" => ix_counter(world', TheDoc) = ix_counter(world, TheDoc) + 1
       /\ last'.op \in {"add_edge", "remove_node", "remove_edge"} =>
             ix_counter(world', TheDoc) = ix_counter(world, TheDoc)
       /\ ix_counter(world', TheDoc) >= ix_counter(world, TheDoc)
       /\ (last'.op = "add_node" /\ world.nodes[last'.arg].ix = NoIx) =>
             /\ world'.nodes[last'.arg].ix = Prefix \o <<ToString(ix_counter(world', TheDoc))>>
             /\ \A n \in AutoNodes \ {last'.arg} : world.nodes[n].ix # world'.nodes[last'.arg].ix]_vars

\* node 1 was given doc_0 and removed; add_node(2) returned and gave node 2 doc_1
CounterMonotoneWitness ==
    /\ last.op = "add_node" /\ last.arg = 2 /\ last.ok
    /\ world.nodes[1].ix = <<"doc", "0">>
    /\ 1 \notin Registered(world, TheDoc)
    /\ world.nodes[2].ix = <<"doc", "1">>
    /\ ix_counter(world, TheDoc) = 1

(* -------------------------------- C21 ---------------------------------- *)
\* C21: in every state reached by add_node, add_edge, remove_node and remove_edge calls
\* that returned, an edge is in a node's outgoing (incoming) list iff it is in the edge
\* table with that node as source (target), each at most once, a self-loop included;
\* every registered edge has both endpoints registered; and remove_edge and
\* remove_node return on every registered edge and node.
AdjacencyConsistent ==
    /\ ListsHoldEdges(world, TheDoc)
    /\ \A n \in DOMAIN world.nodes \ Registered(world, TheDoc) :
          world.nodes[n].outgoing = <<>> /\ world.nodes[n].incoming = <<>>
    /\ \A e \in RegisteredEdges(world, TheDoc) :
          /\ EndpointsRegistered(world, TheDoc, e)
          /\ remove_edge(world, TheDoc, e).ok
    /\ \A n \in Registered(world, TheDoc) : remove_node(world, TheDoc, n).ok

\* remove_edge(1) and add_edge(2), an edge with the endpoints of edge 1, returned,
\* beside the LINK edge of span node 3
AdjacencyConsistentWitness ==
    /\ last.op = "add_edge" /\ last.arg = 2 /\ last.ok
    /\ RegisteredEdges(world, TheDoc) = {2, LinkEdgeOf(TheDoc, 3)}
    /\ world.nodes[1].outgoing # <<>>
    /\ world.nodes[2].incoming = <<2>>

(* -------------------------------- C22 ---------------------------------- *)
\* C22: an add_node call that raises leaves every registered node registered with the
\* same incoming and outgoing lists, registers no node and leaves the edge table as it
\* was; only ix_counter differs.
FailingAddNodeFrame ==
    [][(last'.op = "add_node" /\ ~last'.ok) =>
          /\ world'.docs[TheDoc].nodes = world.docs[TheDoc].nodes
          /\ world'.docs[TheDoc].node_ix_to_uuid = world.docs[TheDoc].node_ix_to_uuid
          /\ \A n \in Registered(world, TheDoc) :
                /\ world'.nodes[n].incoming = world.nodes[n].incoming
                /\ world'.nodes[n].outgoing = world.nodes[n].outgoing
          /\ world'.docs[TheDoc].edges = world.docs[TheDoc].edges
          /\ world'.docs[TheDoc].edge_ix_to_uuid = world.docs[TheDoc].edge_ix_to_uuid]_vars

(* -------------------------------- C23 ---------------------------------- *)
\* the incoming edges of type etype of node n, in insertion order
IncomingOf(w, n, etype) == SelectSeq(w.nodes[n].incoming, LAMBDA e : w.edges[e].etype = etype)

\* p starts with n, steps to the source of the first incoming etype edge and ends at
\* a node without one
FollowsFirstIncoming(w, p, n, etype) ==
    /\ p # <<>>
    /\ p[1] = n
    /\ \A i \in 1..(Len(p) - 1) :
          /\ IncomingOf(w, p[i], etype) # <<>>
          /\ p[i + 1] = w.edges[IncomingOf(w, p[i], etype)[1]].src_node
    /\ IncomingOf(w, p[Len(p)], etype) = <<>>

\* C23: on every document, cyclic or not, breadcrumbs(node, etype) of a registered node
\* yields a finite sequence that starts with node, steps to the source of the first
\* incoming etype edge and ends at a node without one; tree_distance and the node
\* comparisons built on it end without running into the recursion limit.
BreadcrumbsFinite ==
    /\ (last.op = "breadcrumbs" /\ last.arg[1] \in Registered(world, TheDoc)) =>
          /\ last.ok
          /\ FollowsFirstIncoming(world, ret[1], last.arg[1], last.arg[2])
    /\ last.op \in {"lt", "le", "gt", "ge", "tree_distance"} => last.err # "RecursionError"

(* -------------------------------- C24 ---------------------------------- *)
\* what document d holds: its tables, index maps and counter, and the lists of its nodes
DocState(w, d) ==
    [doc |-> w.docs[d],
     lists |-> [n \in Registered(w, d) |-> <<w.nodes[n].incoming, w.nodes[n].outgoing>>]]

\* the document instances other than d that exist before and after a step
OtherDocs(w, v, d) == (DOMAIN w.docs \cap DOMAIN v.docs) \ {d}

\* every registered edge of d joins registered nodes of d and is in their lists
EdgesInLists(w, d) ==
    \A e \in RegisteredEdges(w, d) :
        /\ EndpointsRegistered(w, d, e)
        /\ InSeq(e, w.nodes[w.edges[e].src_node].outgoing)
        /\ InSeq(e, w.nodes[w.edges[e].tgt_node].incoming)

\* C24: after a node of one document was added to another, or a multi-graph was
\* composed from it, the document still has each of its registered edges in the lists
\* of its endpoints; and a call of add_node, add_edge, remove_node or remove_edge on
\* one document instance leaves the node table, edge table, index maps, lists and
\* ix_counter of every other instance as they were.
DocumentsIsolated ==
    [][/\ (last'.op \in {"add_node", "IntertextMultiGraph"}) =>
             \A d \in {DocA, DocB} : EdgesInLists(world, d) => EdgesInLists(world', d)
       /\ (last'.op \in {"add_node", "remove_node", "add_edge", "remove_edge"}) =>
             \A d \in OtherDocs(world, world', last'.arg[1]) : DocState(world', d) = DocState(world, d)]_vars

(* -------------------------------- C25 ---------------------------------- *)
\* the LINK edges from the source of span node n to n
LinkEdgesTo(w, d, n) ==
    {e \in LinkEdges(w, d) : w.edges[e].src_node = w.nodes[n].src_node /\ w.edges[e].tgt_node = n}

\* C25: in every reachable state every registered SpanNode has its source registered
\* in the document and exactly one LINK edge from the source to it, and loading the
\* saved form of the document succeeds.
SpansNeverDangle ==
    /\ \A n \in Registered(world, TheDoc) :
          IsSpan(world, n) =>
             /\ world.nodes[n].src_node \in Registered(world, TheDoc)
             /\ Cardinality(LinkEdgesTo(world, TheDoc, n)) = 1
    /\ last.op = "load_json" => last.ok

(* -------------------------------- C26 ---------------------------------- *)
\* C26: add_node of a plain node whose index is unset returns and gives the node an
\* index that no node registered before the call has.
AutoIndexFree ==
    [][(/\ last'.op = "add_node"
        /\ IsPlain(world, last'.arg)
        /\ world.nodes[last'.arg].ix = NoIx) =>
          /\ last'.ok
          /\ world'.nodes[last'.arg].ix \notin RegisteredIx(world, TheDoc)]_vars

====
